---- MODULE Spec2Model ----
(***************************************************************************)
(* The SPARC context portal with enhanced embeddings: the relational       *)
(* source tables (decisions, progress, system_patterns, custom_data), the  *)
(* item_embeddings vector table that shares their sqlite connection, the   *)
(* embedding providers, and the operations of EnhancedSPARCSearch and      *)
(* EnhancedContextPortalSPARCServer.                                       *)
(*                                                                         *)
(* Texts are sequences of word tokens (the empty sequence is the empty     *)
(* string); an embedding is a sequence of integers, one per dimension.     *)
(* Similarity scores are kept exactly, as the fraction num/den that equals *)
(* sign(cos) * cos^2: that scale is order-isomorphic to the cosine, so     *)
(* every comparison the code makes between scores, or between a score and  *)
(* a threshold, has the same outcome.  0/0 is NaN, as numpy produces for a *)
(* zero-magnitude vector, and every comparison with it is false.           *)
(***************************************************************************)
EXTENDS Integers, Sequences, FiniteSets, TLC

\* ------------------------------------------------------------ bounds
\* Total number of source records logged in a run.
MaxLogs == 2
\* Longest id list passed to update_embeddings.
MaxBatch == 2
\* Largest top_k passed to semantic_search.
MaxTopK == 2
\* Number of times the server is closed and built again on the same file.
MaxReopens == 1
\* transition_to_next_phase calls followed: enough to walk the twelve phases
\* and go on after the last.
MaxTransitions == 14

\* ------------------------------------------------------------ domains
\* rebuild_all_embeddings walks the kinds in this order.
KindOrder == <<"decisions", "progress", "system_patterns", "custom_data">>
Kinds == {KindOrder[i] : i \in 1..Len(KindOrder)}

\* The word tokens texts are made of, in the (alphabetical) order in which
\* TfidfVectorizer numbers its vocabulary.
WordOrder == <<"auth", "index">>
Words == {WordOrder[i] : i \in 1..Len(WordOrder)}

\* Inputs of the log_* operations.
Summaries == {"auth", "index"}
Rationales == {"auth"}
Descriptions == {"", "auth", "index"}
Statuses == {"open"}
PatternNames == {"auth"}
PatternDescriptions == {"index"}
Categories == {"auth"}
Keys == {"index"}
Values == {"auth"}

PHASE_SEQUENCE == <<"research", "specification", "design", "architecture",
                    "implementation", "testing", "security review",
                    "qa validation", "integration", "deployment",
                    "documentation", "project complete">>
PhaseNames == {PHASE_SEQUENCE[i] : i \in 1..Len(PHASE_SEQUENCE)}

\* Inputs of update_progress.
NewStatuses == {"done"}
NewDescriptions == {"index"}

\* Embedding types of _create_embedding_provider that the model covers.
EmbeddingTypes == {"tfidf", "openai"}

VARIABLES
    decisions,        \* rows of table decisions
    progress,         \* rows of table progress
    system_patterns,  \* rows of table system_patterns
    custom_data,      \* rows of table custom_data
    sqlite_sequence,  \* AUTOINCREMENT: last id handed out, per source table
    phases,           \* table phases: name -> status
    item_embeddings,  \* table item_embeddings as the connection sees it, in rowid order
    committed,        \* table item_embeddings as committed on disk
    provider,         \* the active EmbeddingProvider instance
    clock,            \* the wall clock read by _current_timestamp
    reopens,          \* how many times the server was built again
    last,             \* the last call made and what it gave back to the caller
    frame,            \* the activation of the provider call that runs step by step
    transitions       \* transition_to_next_phase calls made on this database so far

vars == <<decisions, progress, system_patterns, custom_data, sqlite_sequence,
          phases, item_embeddings, committed, provider, clock, reopens, last,
          frame, transitions>>

\* ------------------------------------------------------------ helpers
RECURSIVE SeqToSet(_)
SeqToSet(s) == IF s = <<>> THEN {} ELSE {Head(s)} \cup SeqToSet(Tail(s))

\* The elements of a finite set of integers as an ascending sequence.
RECURSIVE Ascending(_)
Ascending(S) ==
    IF S = {} THEN <<>>
    ELSE LET m == CHOOSE x \in S : \A y \in S : x <= y
         IN <<m>> \o Ascending(S \ {m})

\* All sequences over S of length at most n.
RECURSIVE SeqsUpTo(_, _)
SeqsUpTo(S, n) ==
    IF n = 0 THEN {<<>>}
    ELSE LET shorter == SeqsUpTo(S, n - 1)
         IN shorter \cup {Append(s, x) : s \in shorter, x \in S}

\* Number of occurrences of word w in text t.
RECURSIVE Count(_, _)
Count(w, t) ==
    IF t = <<>> THEN 0
    ELSE (IF Head(t) = w THEN 1 ELSE 0) + Count(w, Tail(t))

\* ------------------------------------------------------------ source tables
\* A database state db is the record of the four source tables, the
\* item_embeddings table as the connection sees it (view) and as committed,
\* the provider instance and the current time.
Table(db, item_type) ==
    CASE item_type = "decisions" -> db.decisions
      [] item_type = "progress" -> db.progress
      [] item_type = "system_patterns" -> db.system_patterns
      [] item_type = "custom_data" -> db.custom_data
      [] OTHER -> {}

\* json.dumps / json.loads of a custom_data value.
JsonDumps(v) == [json |-> v]
JsonLoads(s) == s.json

\* get_current_phase: the active phase, or the first one when none is active.
get_current_phase ==
    IF \E i \in 1..Len(PHASE_SEQUENCE) : phases[PHASE_SEQUENCE[i]] = "active"
    THEN PHASE_SEQUENCE[CHOOSE i \in 1..Len(PHASE_SEQUENCE) :
             /\ phases[PHASE_SEQUENCE[i]] = "active"
             /\ \A j \in 1..(i - 1) : phases[PHASE_SEQUENCE[j]] # "active"]
    ELSE PHASE_SEQUENCE[1]

\* _initialize_phases on a phases table ph.
InitializePhases(ph) ==
    IF \E n \in PhaseNames : ph[n] = "active" THEN ph
    ELSE [ph EXCEPT ![PHASE_SEQUENCE[1]] = "active"]

\* _get_item_text_content: the text of a record, <<>> when the record does
\* not exist, the kind is unknown, or the text is the empty string.
TextOfRow(item_type, row) ==
    CASE item_type = "decisions" -> <<row.summary, row.rationale>>
      [] item_type = "progress" ->
            IF row.description = "" THEN <<>> ELSE <<row.description>>
      [] item_type = "system_patterns" -> <<row.name, row.description>>
      [] item_type = "custom_data" ->
            <<row.category, row.key, JsonLoads(row.value)>>
      [] OTHER -> <<>>

_get_item_text_content(db, item_type, item_id) ==
    IF \E r \in Table(db, item_type) : r.id = item_id
    THEN TextOfRow(item_type, CHOOSE r \in Table(db, item_type) : r.id = item_id)
    ELSE <<>>

\* ------------------------------------------------------------ providers
\* A fresh provider instance, as _create_embedding_provider builds it.
NewProvider(embedding_type) ==
    IF embedding_type = "tfidf"
    THEN [type |-> "tfidf", name |-> "tfidf", fitted |-> FALSE, vocabulary |-> <<>>]
    ELSE IF embedding_type = "sentence_transformer"
    THEN [type |-> "sentence_transformer",
          name |-> "sentence_transformer_all-MiniLM-L6-v2",
          fitted |-> FALSE, vocabulary |-> <<>>]
    ELSE [type |-> "openai", name |-> "openai_text-embedding-3-small",
          fitted |-> FALSE, vocabulary |-> <<>>, max_retries |-> 3]

\* The words of WordOrder that occur in one of the texts, in vocabulary order.
VocabularyOf(texts) ==
    SelectSeq(WordOrder, LAMBDA w : \E i \in 1..Len(texts) : Count(w, texts[i]) > 0)

\* A vectorizer fitted again on every batch it is given.
RefitEveryBatch(p, texts) ==
    IF p.type = "tfidf" /\ texts # <<>>
    THEN [p EXCEPT !.fitted = FALSE, !.vocabulary = VocabularyOf(texts)]
    ELSE p

\* A vectorizer that an empty batch fits as well.
FitOnEmptyBatch(p, texts) ==
    IF p.type = "tfidf" /\ ~p.fitted
    THEN [p EXCEPT !.fitted = TRUE, !.vocabulary = VocabularyOf(texts)]
    ELSE p

\* The provider after encode(texts): TFIDFEmbeddingProvider fits its
\* vectorizer on the first non-empty batch it is given and never again.
AfterEncode(p, texts) ==
    IF p.type = "tfidf" /\ ~p.fitted /\ texts # <<>>
    THEN [p EXCEPT !.fitted = TRUE, !.vocabulary = VocabularyOf(texts)]
    ELSE p

\* One text's vector under a fitted tfidf vocabulary: one component per
\* vocabulary word, zero for every word outside the vocabulary.
TfidfVector(vocabulary, text) ==
    [j \in 1..Len(vocabulary) |-> Count(vocabulary[j], text)]

\* One text's vector under the remote model: a fixed function of the text
\* with a fixed dimension.
OpenAIVector(text) ==
    <<Count("index", text) + Count("auth", text), Count("auth", text)>>

\* One text's vector under the sentence transformer: a fixed function of
\* the text with a fixed dimension.
SentenceVector(text) ==
    <<Count("auth", text) + 1, Count("index", text) + 1>>

\* encode(texts): one vector per text, in input order.
Encode(p, texts) ==
    LET q == AfterEncode(p, texts)
    IN [i \in 1..Len(texts) |->
            IF p.type = "tfidf" THEN TfidfVector(q.vocabulary, texts[i])
            ELSE IF p.type = "sentence_transformer" THEN SentenceVector(texts[i])
            ELSE OpenAIVector(texts[i])]

\* Bytes per element of the array encode returns: TfidfVectorizer matrices
\* and arrays built from Python floats are float64, SentenceTransformer.encode
\* returns float32.
ItemSize(p) == IF p.type = "sentence_transformer" THEN 4 ELSE 8

\* ndarray.tobytes(): a blob is its length in bytes with the elements
\* written and their size; the bytes past the last whole element, if any,
\* carry no element.
Tobytes(v, itemsize) ==
    [nbytes |-> itemsize * Len(v), floats |-> v, itemsize |-> itemsize]

\* np.frombuffer(blob, dtype=float64) raises ValueError when the byte length
\* is not a multiple of 8.
Malformed(blob) == blob.nbytes % 8 # 0

\* Eight bytes holding two float32 elements read as one float64: some other
\* number.
Reinterpret(low, high) == 1000 + low + 10 * high

\* np.frombuffer(blob, dtype=float64) on a blob it accepts: one element per
\* eight bytes.
Frombuffer(blob) ==
    IF blob.itemsize = 8 THEN SubSeq(blob.floats, 1, blob.nbytes \div 8)
    ELSE [k \in 1..(blob.nbytes \div 8) |->
            Reinterpret(blob.floats[2 * k - 1], blob.floats[2 * k])]

\* ------------------------------------------------------------ similarity
RECURSIVE Dot(_, _)
Dot(u, v) ==
    IF u = <<>> \/ v = <<>> THEN 0
    ELSE Head(u) * Head(v) + Dot(Tail(u), Tail(v))

Abs(x) == IF x < 0 THEN 0 - x ELSE x

\* np.dot(q, s) / (norm(q) * norm(s)) on the sign(cos)*cos^2 scale; 0/0 when
\* either vector has magnitude zero.
Similarity(q, s) ==
    [num |-> Dot(q, s) * Abs(Dot(q, s)), den |-> Dot(q, q) * Dot(s, s)]

IsNaN(x) == x.den = 0

\* x >= y and x > y on scores and thresholds (false when either is NaN).
Geq(x, y) == ~IsNaN(x) /\ ~IsNaN(y) /\ x.num * y.den >= y.num * x.den
Gt(x, y) == ~IsNaN(x) /\ ~IsNaN(y) /\ x.num * y.den > y.num * x.den

\* ------------------------------------------------------------ item_embeddings
\* A plain INSERT on a table without the UNIQUE constraint: the new row is
\* added and the row of the same key stays.
InsertPlain(rows, row) == Append(rows, row)

\* INSERT OR REPLACE under UNIQUE(item_type, item_id, embedding_model): the
\* row holding the same key is deleted and the new row gets a fresh rowid,
\* which puts it last in rowid order.
InsertOrReplace(rows, row) ==
    Append(SelectSeq(rows, LAMBDA r : ~(/\ r.item_type = row.item_type
                                        /\ r.item_id = row.item_id
                                        /\ r.embedding_model = row.embedding_model)),
           row)

\* The ids update_embeddings works on (lines 302-314): the given list when
\* it is a non-empty list, else every id of the table in rowid order.
IdsToUpdate(db, item_type, item_ids) ==
    IF ~item_ids.none /\ item_ids.list # <<>> THEN item_ids.list
    ELSE Ascending({r.id : r \in Table(db, item_type)})

\* The (id, text) pairs kept by the collection loop (lines 317-323): ids
\* whose text is empty or missing are skipped.
RECURSIVE CollectTexts(_, _, _)
CollectTexts(db, item_type, ids) ==
    IF ids = <<>> THEN <<>>
    ELSE LET text == _get_item_text_content(db, item_type, Head(ids))
             rest == CollectTexts(db, item_type, Tail(ids))
         IN IF text # <<>> THEN <<[id |-> Head(ids), text |-> text]>> \o rest
            ELSE rest

\* The store loop (lines 335-351) run over the first n collected items.
\* The created_at column is written and never read; it is left out.
RECURSIVE StoreRows(_, _, _, _, _, _)
StoreRows(rows, item_type, items, embeddings, p, n) ==
    IF n = 0 THEN rows
    ELSE InsertOrReplace(
            StoreRows(rows, item_type, items, embeddings, p, n - 1),
            [item_type |-> item_type,
             item_id |-> items[n].id,
             embedding |-> Tobytes(embeddings[n], ItemSize(p)),
             text_content |-> items[n].text,
             embedding_model |-> p.name])

\* What can go wrong inside a call: nothing; the provider raising from
\* encode; sqlite raising a DatabaseError after `at` rows of the batch were
\* written; any other exception after `at` rows were written.
NoFault == [type |-> "none", at |-> 0]
Faults ==
    {NoFault, [type |-> "encode", at |-> 0]}
        \cup {[type |-> t, at |-> k] : t \in {"db", "other"}, k \in 0..(MaxBatch - 1)}

\* Only the remote provider's encode can fail.
CanFailEncode(p) == p.type = "openai"

\* A refresh of another kind that empties the progress table.
RefreshDroppingProgress(db, item_type, item_ids, fault) ==
    [db EXCEPT !.progress = IF item_type = "progress" THEN @ ELSE {},
               !.raised = "none"]

\* update_embeddings(item_type, item_ids) on database state db; the result
\* is the database state after the call with raised, the exception that left
\* the call ("none" when it returned).
update_embeddings(db, item_type, item_ids, fault) ==
    LET unknown == item_type \notin Kinds /\ (item_ids.none \/ item_ids.list = <<>>)
        items == CollectTexts(db, item_type, IdsToUpdate(db, item_type, item_ids))
        texts == [i \in 1..Len(items) |-> items[i].text]
        p == AfterEncode(db.provider, texts)
        embeddings == Encode(db.provider, texts)
        ok == [db EXCEPT !.raised = "none"]
    IN  IF unknown \/ texts = <<>> THEN ok
        ELSE IF fault.type = "encode" /\ CanFailEncode(db.provider)
        THEN [ok EXCEPT !.raised = "OpenAIEmbeddingError"]
        ELSE IF fault.type = "db" /\ fault.at < Len(items)
        THEN \* except sqlite3.DatabaseError: rollback
             [ok EXCEPT !.view = db.committed, !.provider = p,
                        !.raised = "EmbeddingUpdateError"]
        ELSE IF fault.type = "other" /\ fault.at < Len(items)
        THEN \* not caught: the rows written so far stay in the open transaction
             [ok EXCEPT !.view = StoreRows(db.view, item_type, items, embeddings,
                                          p, fault.at),
                        !.provider = p, !.raised = "Exception"]
        ELSE LET rows == StoreRows(db.view, item_type, items, embeddings, p,
                                   Len(items))
             IN [ok EXCEPT !.view = rows, !.committed = rows, !.provider = p]

\* A row written and not yet committed is in the connection's view: the
\* write transaction sqlite3 opened before the INSERT is still open.
InTransaction(db) == db.view # db.committed

\* update_embeddings(item_type, item_ids) reaches provider.encode (line 329)
\* while the connection holds an open write transaction.
EncodeHeld(db, item_type, item_ids) ==
    /\ CollectTexts(db, item_type, IdsToUpdate(db, item_type, item_ids)) # <<>>
    /\ InTransaction(db)

\* The line printed when the loop is over.
AllRebuilt == "All embeddings rebuilt!"

\* rebuild_all_embeddings from kind number k on (lines 436-441): for each
\* kind a line is printed and update_embeddings(kind) is called; an
\* exception leaving one of the calls leaves the loop and the rebuild; after
\* the loop the closing line is printed.  The result is the database state
\* with the kinds printed, in order, in stdout, and held, whether one of the
\* encode calls was made inside an open write transaction.  The fault, if any, strikes
\* the refresh of kind number failAt.
RECURSIVE RebuildFrom(_, _, _, _)
RebuildFrom(db, k, failAt, fault) ==
    IF k > Len(KindOrder)
    THEN [db |-> [db EXCEPT !.raised = "none"], stdout |-> <<AllRebuilt>>,
          held |-> FALSE]
    ELSE LET all == [none |-> TRUE, list |-> <<>>]
             r == update_embeddings(db, KindOrder[k], all,
                                    IF k = failAt THEN fault ELSE NoFault)
             held == EncodeHeld(db, KindOrder[k], all)
         IN IF r.raised # "none"
            THEN [db |-> r, stdout |-> <<KindOrder[k]>>, held |-> held]
            ELSE LET rest == RebuildFrom(r, k + 1, failAt, fault)
                 IN [db |-> rest.db, stdout |-> <<KindOrder[k]>> \o rest.stdout,
                     held |-> held \/ rest.held]

\* A rebuild whose loop starts at the second kind.
RebuildFromSecond(db, failAt, fault) == RebuildFrom(db, 2, failAt, fault)

rebuild_all_embeddings(db, failAt, fault) == RebuildFrom(db, 1, failAt, fault)

\* The database state the program is in.
Db == [decisions |-> decisions, progress |-> progress,
       system_patterns |-> system_patterns, custom_data |-> custom_data,
       view |-> item_embeddings, committed |-> committed,
       provider |-> provider, now |-> clock, raised |-> "none"]

\* conn.commit() as seen by item_embeddings: the open transaction, which may
\* hold rows an earlier failed batch left behind, becomes durable.
Commit(db) == [db EXCEPT !.committed = db.view]

\* conn.rollback(): the open transaction is dropped.
Rollback(db) == [db EXCEPT !.view = db.committed]

\* ------------------------------------------------------------ semantic_search
\* SELECT ... FROM item_embeddings without the WHERE clause.
SelectAnyModel(rows, name) == rows

\* SELECT ... FROM item_embeddings WHERE embedding_model = ? (lines 372-377),
\* in rowid order.
SelectByModel(rows, name) ==
    SelectSeq(rows, LAMBDA r : r.embedding_model = name)

\* A scan that ignores filter_item_types.
KeepAllItemTypes(rows, filter_item_types) == rows

\* The item-type filter (lines 378-379); an empty or absent filter keeps all.
FilterItemTypes(rows, filter_item_types) ==
    IF filter_item_types # {}
    THEN SelectSeq(rows, LAMBDA r : r.item_type \in filter_item_types)
    ELSE rows

\* similarity > min_similarity.
PassesStrictly(similarity, min_similarity) == Gt(similarity, min_similarity)

\* similarity >= min_similarity (line 395).
PassesThreshold(similarity, min_similarity) == Geq(similarity, min_similarity)

\* A hydration that falls back on what the vector row knows when the source
\* row does not exist.
HydrateOrStub(db, item_type, item_id) ==
    IF \E x \in Table(db, item_type) : x.id = item_id
    THEN {x \in Table(db, item_type) : x.id = item_id}
    ELSE {[id |-> item_id, timestamp |-> 0]}

\* _get_full_item_data: the set holding the full record, empty when the
\* source row does not exist or the kind is unknown.
_get_full_item_data(db, item_type, item_id) ==
    {IF item_type = "custom_data" THEN [r EXCEPT !.value = JsonLoads(r.value)] ELSE r :
        r \in {x \in Table(db, item_type) : x.id = item_id}}

\* The scan loop (lines 383-408): the results in scan order.
RECURSIVE ScanRows(_, _, _, _)
ScanRows(db, rows, query_embedding, min_similarity) ==
    IF rows = <<>> THEN <<>>
    ELSE LET row == Head(rows)
             stored_embedding == Frombuffer(row.embedding)
             similarity == Similarity(query_embedding, stored_embedding)
             item_data == _get_full_item_data(db, row.item_type, row.item_id)
             rest == ScanRows(db, Tail(rows), query_embedding, min_similarity)
         IN IF Len(stored_embedding) # Len(query_embedding) THEN rest
            ELSE IF PassesThreshold(similarity, min_similarity) /\ item_data # {}
            THEN <<[item_id |-> row.item_id,
                    item_type |-> row.item_type,
                    content |-> CHOOSE d \in item_data : TRUE,
                    similarity_score |-> similarity,
                    timestamp |-> (CHOOSE d \in item_data : TRUE).timestamp]>> \o rest
            ELSE rest

\* results.sort(key=similarity_score, reverse=True) (line 411): a stable
\* sort, so results of equal score stay in scan order.
RECURSIVE InsertSorted(_, _)
InsertSorted(sorted, x) ==
    IF sorted = <<>> THEN <<x>>
    ELSE IF Gt(x.similarity_score, Head(sorted).similarity_score)
         THEN <<x>> \o sorted
         ELSE <<Head(sorted)>> \o InsertSorted(Tail(sorted), x)

\* The results left in scan order.
ScanOrder(results) == results

RECURSIVE SortResults(_)
SortResults(results) ==
    IF results = <<>> THEN <<>>
    ELSE InsertSorted(SortResults(SubSeq(results, 1, Len(results) - 1)),
                      results[Len(results)])

\* results[:top_k] (line 412), top_k >= 0.
Truncate(results, top_k) ==
    SubSeq(results, 1, IF top_k < Len(results) THEN top_k ELSE Len(results))

\* What can go wrong inside semantic_search: nothing, the provider failing
\* to embed the query, or sqlite raising a DatabaseError during the SELECT.
SearchFaults == {"none", "encode", "db"}

\* semantic_search on database state db: [provider, cause, raised, result].
\* The scan raises at the first row whose blob np.frombuffer rejects; the
\* ValueError is not a DatabaseError and leaves the call as it is.
semantic_search(db, query, top_k, filter_item_types, min_similarity, fault) ==
    LET p == AfterEncode(db.provider, <<query>>)
        query_embedding == Encode(db.provider, <<query>>)[1]
        rows == FilterItemTypes(SelectByModel(db.view, db.provider.name),
                                filter_item_types)
        results == ScanRows(db, rows, query_embedding, min_similarity)
    IN  IF fault = "encode" /\ CanFailEncode(db.provider)
        THEN [provider |-> db.provider, cause |-> "encode",
              raised |-> "OpenAIEmbeddingError", result |-> <<>>]
        ELSE IF fault = "db"
        THEN \* except sqlite3.DatabaseError
             [provider |-> p, cause |-> "storage",
              raised |-> "SemanticSearchError", result |-> <<>>]
        ELSE IF \E i \in 1..Len(rows) : Malformed(rows[i].embedding)
        THEN [provider |-> p, cause |-> "blob",
              raised |-> "ValueError", result |-> <<>>]
        ELSE [provider |-> p, cause |-> "none", raised |-> "none",
              result |-> Truncate(SortResults(results), top_k)]

\* ------------------------------------------------------------ state machine
NoArgs == [none |-> TRUE]

Called(op, item_type, item_id, raised, args, result) ==
    [op |-> op, item_type |-> item_type, item_id |-> item_id, raised |-> raised,
     args |-> args, result |-> result]

\* No provider call is under way.
NoFrame == [op |-> "none"]

\* No call is under way: the caller has taken the last outcome.
Idle == Called("idle", "none", 0, "none", NoArgs, <<>>)

Init ==
    /\ decisions = {}
    /\ progress = {}
    /\ system_patterns = {}
    /\ custom_data = {}
    /\ sqlite_sequence = [k \in Kinds |-> 0]
    /\ phases = InitializePhases([n \in PhaseNames |-> "pending"])
    /\ item_embeddings = <<>>
    /\ committed = <<>>
    /\ provider \in {NewProvider(t) : t \in EmbeddingTypes}
    /\ clock = 0
    /\ reopens = 0
    /\ transitions = 0
    /\ last = Idle
    /\ frame = NoFrame

\* The variables a database state carries, set from the state r.
SetDb(r) ==
    /\ decisions' = r.decisions
    /\ progress' = r.progress
    /\ system_patterns' = r.system_patterns
    /\ custom_data' = r.custom_data
    /\ item_embeddings' = r.view
    /\ committed' = r.committed
    /\ provider' = r.provider
    /\ clock' = r.now

\* A fault is named in a step only when it strikes: a call that no fault
\* strikes is the call without fault.
Strikes(fault, raised) == (fault = NoFault) = (raised = "none")

\* A hooked log_* call (lines 478-496): the original log_* inserts the row
\* and commits, then update_embeddings(kind, [id]) runs before the id is
\* returned.  db1 is the database state after the insert.
HookedLog(op, db1, item_type, id, fault) ==
    LET r == update_embeddings(Commit(db1), item_type,
                               [none |-> FALSE, list |-> <<id>>], fault)
    IN /\ last = Idle
       /\ Strikes(fault, r.raised)
       /\ SetDb(r)
       /\ sqlite_sequence' = [sqlite_sequence EXCEPT ![item_type] = id]
       /\ last' = Called(op, item_type, id, r.raised,
                         [held |-> EncodeHeld(Commit(db1), item_type,
                                              [none |-> FALSE, list |-> <<id>>])],
                         <<>>)
       /\ UNCHANGED <<phases, reopens, transitions, frame>>

\* An Optional[int] is a sequence of at most one integer; None, stored as
\* NULL, is the empty one.
NoParent == <<>>

\* The id of a table declared without AUTOINCREMENT: one more than the
\* largest id the table holds now.
NextRowid(item_type) ==
    LET ids == {r.id : r \in Table(Db, item_type)}
    IN IF ids = {} THEN 1 ELSE (CHOOSE m \in ids : \A x \in ids : x <= m) + 1

\* The id INSERT gives a new row of an AUTOINCREMENT table: one more than
\* the largest id the table ever held, which sqlite_sequence keeps.
NextId(item_type) == sqlite_sequence[item_type] + 1

log_decision(summary, rationale, fault) ==
    /\ clock < MaxLogs
    /\ LET id == NextId("decisions")
           row == [id |-> id, summary |-> summary, rationale |-> rationale,
                   timestamp |-> clock + 1, phase_name |-> get_current_phase]
       IN HookedLog("log_decision",
                    [Db EXCEPT !.decisions = decisions \cup {row}, !.now = clock + 1],
                    "decisions", id, fault)

log_progress(description, status, fault) ==
    /\ clock < MaxLogs
    /\ LET id == NextId("progress")
           row == [id |-> id, description |-> description, status |-> status,
                   timestamp |-> clock + 1, parent_id |-> NoParent,
                   phase_name |-> get_current_phase]
       IN HookedLog("log_progress",
                    [Db EXCEPT !.progress = progress \cup {row}, !.now = clock + 1],
                    "progress", id, fault)

log_system_pattern(name, description, fault) ==
    /\ clock < MaxLogs
    /\ LET id == NextId("system_patterns")
           row == [id |-> id, name |-> name, description |-> description,
                   timestamp |-> clock + 1, phase_name |-> get_current_phase]
       IN HookedLog("log_system_pattern",
                    [Db EXCEPT !.system_patterns = system_patterns \cup {row},
                               !.now = clock + 1],
                    "system_patterns", id, fault)

log_custom_data(category, key, value, fault) ==
    /\ clock < MaxLogs
    /\ LET id == NextId("custom_data")
           row == [id |-> id, category |-> category, key |-> key,
                   value |-> JsonDumps(value),
                   timestamp |-> clock + 1, phase_name |-> get_current_phase]
       IN HookedLog("log_custom_data",
                    [Db EXCEPT !.custom_data = custom_data \cup {row},
                               !.now = clock + 1],
                    "custom_data", id, fault)

\* The ids a caller may name: those handed out so far and the next one.
SomeIds == 1..MaxLogs

\* An UPDATE that writes every column, the ones left out as NULL.
OverwriteRow(r, status, description, parent_id) ==
    [r EXCEPT !.status = status, !.description = description,
              !.parent_id = parent_id]

\* The row after UPDATE progress SET <the supplied fields> (lines 415-423);
\* "None" is an argument left out.
UpdatedRow(r, status, description, parent_id) ==
    [r EXCEPT !.status = IF status # "None" THEN status ELSE @,
              !.description = IF description # "None" THEN description ELSE @,
              !.parent_id = IF parent_id # NoParent THEN parent_id ELSE @]

\* update_progress (lines 404-427).  It is not hooked: the enhanced server
\* hands it to the base server unchanged.  The outcome keeps the arguments.
update_progress(progress_id, status, description, parent_id, fault) ==
    LET found == \E r \in progress : r.id = progress_id
        updated == {IF r.id # progress_id THEN r
                    ELSE UpdatedRow(r, status, description, parent_id) :
                    r \in progress}
        r == IF status = "None" /\ description = "None" /\ parent_id = NoParent
             THEN [Db EXCEPT !.raised = "ValueError"]
             ELSE IF ~found \/ fault = "db"
             THEN \* the connection's context manager rolls back
                  [Rollback(Db) EXCEPT !.raised = "DatabaseUpdateError"]
             ELSE Commit([Db EXCEPT !.progress = updated])
    IN /\ last = Idle
       /\ (fault = "db") => (r.raised = "DatabaseUpdateError" /\ found)
       /\ SetDb(r)
       /\ last' = Called("update_progress", "progress", progress_id, r.raised,
                         [status |-> status, description |-> description,
                          parent_id |-> parent_id, fault |-> fault], <<>>)
       /\ UNCHANGED <<sqlite_sequence, phases, reopens, transitions, frame>>

\* delete_decision_by_id, delete_progress_by_id, delete_system_pattern_by_id
\* (lines 357-360, 429-432, 470-473): the row goes, its vector row stays.
DeleteById(op, item_type, id) ==
    LET kept == {r \in Table(Db, item_type) : r.id # id}
        r == Commit(CASE item_type = "decisions" -> [Db EXCEPT !.decisions = kept]
                      [] item_type = "progress" -> [Db EXCEPT !.progress = kept]
                      [] OTHER -> [Db EXCEPT !.system_patterns = kept])
    IN /\ last = Idle
       /\ SetDb(r)
       /\ last' = Called(op, item_type, id, "none", NoArgs, <<>>)
       /\ UNCHANGED <<sqlite_sequence, phases, reopens, transitions, frame>>

delete_decision_by_id(decision_id) ==
    DeleteById("delete_decision_by_id", "decisions", decision_id)

delete_progress_by_id(progress_id) ==
    DeleteById("delete_progress_by_id", "progress", progress_id)

delete_system_pattern_by_id(pattern_id) ==
    DeleteById("delete_system_pattern_by_id", "system_patterns", pattern_id)

\* delete_custom_data (lines 505-511): every row of that category and key.
delete_custom_data(category, key) ==
    LET r == Commit([Db EXCEPT !.custom_data =
                        {x \in custom_data : ~(x.category = category /\ x.key = key)}])
    IN /\ last = Idle
       /\ SetDb(r)
       /\ last' = Called("delete_custom_data", "custom_data", 0, "none", NoArgs, <<>>)
       /\ UNCHANGED <<sqlite_sequence, phases, reopens, transitions, frame>>

\* The item_ids arguments of a direct update_embeddings call: left out, or
\* a list of at most MaxBatch ids.
ItemIdArgs ==
    {[none |-> TRUE, list |-> <<>>]}
        \cup {[none |-> FALSE, list |-> l] : l \in SeqsUpTo(SomeIds, MaxBatch)}

\* A direct call of EnhancedSPARCSearch.update_embeddings; the outcome keeps
\* the arguments, the vector table as the connection saw it before, and
\* whether encode ran inside an open transaction.
UpdateEmbeddings(item_type, item_ids, fault) ==
    LET r == update_embeddings(Db, item_type, item_ids, fault)
    IN /\ last = Idle
       /\ Strikes(fault, r.raised)
       /\ SetDb(r)
       /\ last' = Called("update_embeddings", item_type, 0, r.raised,
                         [item_ids |-> item_ids, before |-> item_embeddings,
                          held |-> EncodeHeld(Db, item_type, item_ids)], <<>>)
       /\ UNCHANGED <<sqlite_sequence, phases, reopens, transitions, frame>>

\* rebuild_embeddings of the enhanced server (lines 508-510); the outcome
\* keeps the kind whose refresh the fault struck (0 when none did), the
\* vector table as the connection saw it before, whether an encode ran
\* inside an open transaction, and what was printed.
RebuildEmbeddings(failAt, fault) ==
    LET r == rebuild_all_embeddings(Db, failAt, fault)
    IN /\ last = Idle
       /\ Strikes(fault, r.db.raised) /\ (fault = NoFault => failAt = 1)
       /\ SetDb(r.db)
       /\ last' = Called("rebuild_all_embeddings", "none", 0, r.db.raised,
                         [failed |-> IF fault = NoFault THEN 0 ELSE failAt,
                          before |-> item_embeddings, held |-> r.held],
                         r.stdout)
       /\ UNCHANGED <<sqlite_sequence, phases, reopens, transitions, frame>>

\* Thresholds on the score scale: cosine 0 and 1.
MinSimilarities == {[num |-> 0, den |-> 1], [num |-> 1, den |-> 1]}

\* The filters a caller passes: none, or one kind.
Filters == {{}, {"progress"}}

\* semantic_search of the enhanced server (lines 504-506).
SemanticSearch(query, top_k, filter_item_types, min_similarity, fault) ==
    LET r == semantic_search(Db, query, top_k, filter_item_types, min_similarity, fault)
    IN /\ last = Idle
       /\ (fault = "none") = (r.cause \in {"none", "blob"})
       /\ provider' = r.provider
       /\ last' = Called("semantic_search", "none", 0, r.raised,
                         [query |-> query, top_k |-> top_k,
                          filter_item_types |-> filter_item_types,
                          min_similarity |-> min_similarity, cause |-> r.cause],
                         r.result)
       /\ UNCHANGED <<decisions, progress, system_patterns, custom_data,
                      sqlite_sequence, phases, item_embeddings, committed, clock,
                      reopens, transitions, frame>>

\* The server is closed and a new EnhancedContextPortalSPARCServer is built
\* on the same database file (close: lines 139-147 of the base server;
\* __init__: lines 448-458): closing drops the open transaction, the new
\* server gets a fresh provider instance of the configured type.
Reopen(embedding_type) ==
    /\ last = Idle
    /\ reopens < MaxReopens
    /\ reopens' = reopens + 1
    /\ SetDb([Rollback(Db) EXCEPT !.provider = NewProvider(embedding_type)])
    /\ phases' = InitializePhases(phases)
    /\ last' = Called("reopen", "none", 0, "none", NoArgs, <<>>)
    /\ UNCHANGED <<sqlite_sequence, frame, transitions>>

\* The blobs a writer other than update_embeddings leaves in the embedding
\* column: twelve bytes (one float64 and four more bytes), and two float64.
Blobs == {[nbytes |-> 12, floats |-> <<1>>, itemsize |-> 8],
          [nbytes |-> 16, floats |-> <<1, 1>>, itemsize |-> 8]}

\* A vector row written straight into item_embeddings on the shared
\* connection and committed, under the active provider's name; the plain
\* INSERT goes through only when the key is free.
StoreBlob(item_type, item_id, blob) ==
    LET row == [item_type |-> item_type, item_id |-> item_id, embedding |-> blob,
                text_content |-> <<"auth">>, embedding_model |-> provider.name]
    IN /\ last = Idle
       /\ \A i \in 1..Len(item_embeddings) :
             ~(/\ item_embeddings[i].item_type = item_type
               /\ item_embeddings[i].item_id = item_id
               /\ item_embeddings[i].embedding_model = provider.name)
       /\ SetDb(Commit([Db EXCEPT !.view = Append(item_embeddings, row)]))
       /\ last' = Called("store_blob", item_type, item_id, "none", NoArgs, <<>>)
       /\ UNCHANGED <<sqlite_sequence, phases, reopens, transitions, frame>>

\* The caller takes the outcome of the call; the next call can start.
Return ==
    /\ last # Idle
    /\ last' = Idle
    /\ UNCHANGED <<decisions, progress, system_patterns, custom_data,
                   sqlite_sequence, phases, item_embeddings, committed,
                   provider, clock, reopens, transitions, frame>>

\* The calls of a client of one server that writes, refreshes and rebuilds,
\* with every fault.
Next ==
    \/ \E s \in {"auth"}, r \in Rationales, f \in Faults : log_decision(s, r, f)
    \/ \E d \in {"", "auth"}, st \in Statuses, f \in Faults : log_progress(d, st, f)
    \/ \E n \in PatternNames, d \in PatternDescriptions, f \in Faults :
            log_system_pattern(n, d, f)
    \/ \E c \in Categories, k \in Keys, v \in Values, f \in Faults :
            log_custom_data(c, k, v, f)
    \/ \E id \in SomeIds, st \in NewStatuses \cup {"None"},
          d \in NewDescriptions \cup {"None"}, f \in {"none", "db"} :
            update_progress(id, st, d, NoParent, f)
    \/ \E t \in Kinds \cup {"unknown"}, ids \in ItemIdArgs, f \in Faults :
            UpdateEmbeddings(t, ids, f)
    \/ \E k \in 1..Len(KindOrder), f \in Faults : RebuildEmbeddings(k, f)
    \/ Return

Spec == Init /\ [][Next]_vars

\* The calls of a client that searches with every argument and every search
\* fault, over stores built by fault-free writes, deletes and rebuilds, the
\* server being built again with either provider.
NextSearch ==
    \/ \E s \in Summaries, r \in Rationales : log_decision(s, r, NoFault)
    \/ \E d \in Descriptions, st \in Statuses : log_progress(d, st, NoFault)
    \/ \E n \in PatternNames, d \in PatternDescriptions :
            log_system_pattern(n, d, NoFault)
    \/ \E c \in Categories, k \in Keys, v \in Values :
            log_custom_data(c, k, v, NoFault)
    \/ \E id \in SomeIds : delete_decision_by_id(id)
    \/ \E id \in SomeIds : delete_progress_by_id(id)
    \/ \E id \in SomeIds : delete_system_pattern_by_id(id)
    \/ \E c \in Categories, k \in Keys : delete_custom_data(c, k)
    \/ RebuildEmbeddings(1, NoFault)
    \/ \E q \in Words, k \in 1..MaxTopK, ft \in Filters, m \in MinSimilarities,
          f \in SearchFaults : SemanticSearch(<<q>>, k, ft, m, f)
    \/ \E t \in EmbeddingTypes : Reopen(t)
    \/ Return

SpecSearch == Init /\ [][NextSearch]_vars

\* ------------------------------------------------------------ phases
\* The place of a phase in PHASE_SEQUENCE (list.index, counted from 1).
IndexOf(name) == CHOOSE i \in 1..Len(PHASE_SEQUENCE) : PHASE_SEQUENCE[i] = name

\* A transition that activates the next phase and leaves the current one
\* as it is.
ActivateOnly(ph) ==
    IF IndexOf(get_current_phase) + 1 <= Len(PHASE_SEQUENCE)
    THEN [ph EXCEPT ![PHASE_SEQUENCE[IndexOf(get_current_phase) + 1]] = "active"]
    ELSE ph

\* A transition that marks the current phase complete and activates nothing.
CompleteOnly(ph) == [ph EXCEPT ![get_current_phase] = "complete"]

\* The phases table after transition_to_next_phase (lines 550-566): the
\* phase get_current_phase reports is marked complete, then the phase after
\* it in PHASE_SEQUENCE, if there is one, is marked active.
NextPhases(ph) ==
    LET current == get_current_phase
        idx == IndexOf(current)
        marked == [ph EXCEPT ![current] = "complete"]
    IN IF idx + 1 <= Len(PHASE_SEQUENCE)
       THEN [marked EXCEPT ![PHASE_SEQUENCE[idx + 1]] = "active"]
       ELSE marked

\* transition_to_next_phase of the base server; its commit makes whatever
\* the connection holds durable.  The outcome keeps the phase that was
\* current and the table as it was.
transition_to_next_phase ==
    /\ last = Idle
    /\ transitions < MaxTransitions
    /\ transitions' = transitions + 1
    /\ phases' = NextPhases(phases)
    /\ SetDb(Commit(Db))
    /\ last' = Called("transition_to_next_phase", "none", 0, "none",
                      [current |-> get_current_phase, before |-> phases], <<>>)
    /\ UNCHANGED <<sqlite_sequence, reopens, frame>>

\* The calls of a client that walks the phases, logging decisions under
\* them, the server being built again at any point.
NextPhase ==
    \/ transition_to_next_phase
    \/ \E t \in EmbeddingTypes : Reopen(t)
    \/ \E s \in {"auth"}, r \in Rationales : log_decision(s, r, NoFault)
    \/ Return

SpecPhase == Init /\ [][NextPhase]_vars

\* ------------------------------------------------------------ memory bank
\* A directory or file is the sequence of names from the root to it; a path
\* argument is absolute or relative, with the names it is made of.
Workspace == <<"ws">>

\* The working directories the process may run in.
Cwds == {Workspace, <<>>}

\* The memory_bank_dir arguments a caller passes.
MemoryBankPaths ==
    {[abs |-> FALSE, parts |-> <<"mb">>],
     [abs |-> FALSE, parts |-> <<"..", "outside">>],
     [abs |-> TRUE, parts |-> <<"ws", "mb">>],
     [abs |-> TRUE, parts |-> <<"outside">>]}

\* The memory banks on disk: each holds context/sample-decisions.md with
\* the one line "- auth; auth".
MemoryBanks == {<<"ws", "mb">>, <<"outside">>}

\* os.path.normpath on the names of an absolute path: ".." drops the name
\* before it, and at the root drops nothing.
RECURSIVE Normpath(_, _)
Normpath(done, rest) ==
    IF rest = <<>> THEN done
    ELSE IF Head(rest) = ".."
    THEN Normpath(IF done = <<>> THEN <<>> ELSE SubSeq(done, 1, Len(done) - 1),
                  Tail(rest))
    ELSE Normpath(Append(done, Head(rest)), Tail(rest))

\* os.path.abspath(path) in a process whose working directory is cwd.
Abspath(cwd, path) ==
    Normpath(<<>>, IF path.abs THEN path.parts ELSE cwd \o path.parts)

\* The directory or file lies in the workspace directory.
Inside(file) ==
    Len(file) >= Len(Workspace) /\ SubSeq(file, 1, Len(Workspace)) = Workspace

\* What a sync call did on disk: the files it read and the directories and
\* files it created or wrote.
OnDisk(read, written) == [read |-> read, written |-> written]

\* sync_from_memory_bank (lines 676-764): the directory is resolved with
\* os.path.abspath; each "- summary; rationale" line of a *-decisions.md
\* file under context/ goes to log_decision, which is the hooked one.
sync_from_memory_bank(cwd, path) ==
    LET mb_path == Abspath(cwd, path)
        full == mb_path \o <<"context", "sample-decisions.md">>
        id == NextId("decisions")
        row == [id |-> id, summary |-> "auth", rationale |-> "auth",
                timestamp |-> clock + 1, phase_name |-> get_current_phase]
        r == update_embeddings(
                 Commit([Db EXCEPT !.decisions = decisions \cup {row},
                                   !.now = clock + 1]),
                 "decisions", [none |-> FALSE, list |-> <<id>>], NoFault)
    IN /\ last = Idle
       /\ IF mb_path \notin MemoryBanks
          THEN /\ last' = Called("sync_from_memory_bank", "none", 0,
                                 "FileNotFoundError",
                                 [path |-> path, cwd |-> cwd, created |-> 0],
                                 OnDisk({}, {}))
               /\ UNCHANGED <<decisions, progress, system_patterns, custom_data,
                              sqlite_sequence, item_embeddings, committed,
                              provider, clock>>
          ELSE /\ clock < MaxLogs
               /\ SetDb(r)
               /\ sqlite_sequence' = [sqlite_sequence EXCEPT !["decisions"] = id]
               /\ last' = Called("sync_from_memory_bank", "none", 0, r.raised,
                                 [path |-> path, cwd |-> cwd, created |-> 1],
                                 OnDisk({full}, {}))
       /\ UNCHANGED <<phases, reopens, transitions, frame>>

\* sync_to_memory_bank (lines 766-814): the directory is resolved with
\* os.path.abspath and created with context/ and phases/ under it; the
\* decisions, when there are any, are written to
\* context/imported-decisions.md, and so on for the other tables.
sync_to_memory_bank(cwd, path) ==
    LET mb_path == Abspath(cwd, path)
        ctx_dir == mb_path \o <<"context">>
        phases_dir == mb_path \o <<"phases">>
        files == (IF decisions # {} THEN {ctx_dir \o <<"imported-decisions.md">>}
                  ELSE {})
                   \cup (IF progress # {} THEN {phases_dir \o <<"imported-status.md">>}
                          ELSE {})
    IN /\ last = Idle
       /\ last' = Called("sync_to_memory_bank", "none", 0, "none",
                         [path |-> path, cwd |-> cwd, created |-> 0],
                         OnDisk({}, {mb_path, ctx_dir, phases_dir} \cup files))
       /\ UNCHANGED <<decisions, progress, system_patterns, custom_data,
                      sqlite_sequence, phases, item_embeddings, committed,
                      provider, clock, reopens, transitions, frame>>

\* The calls of a client that logs records and imports from and exports to
\* memory banks, from any working directory.
NextSync ==
    \/ \E s \in {"auth"}, r \in Rationales : log_decision(s, r, NoFault)
    \/ \E d \in {"", "auth"}, st \in Statuses : log_progress(d, st, NoFault)
    \/ \E cwd \in Cwds, path \in MemoryBankPaths : sync_from_memory_bank(cwd, path)
    \/ \E cwd \in Cwds, path \in MemoryBankPaths : sync_to_memory_bank(cwd, path)
    \/ Return

SpecSync == Init /\ [][NextSync]_vars

\* ------------------------------------------------------------ tfidf vocabulary
\* The batches a caller hands to encode: the empty one, and every batch of
\* at most MaxBatch one-word texts.
EncodeBatches == SeqsUpTo({<<w>> : w \in Words}, MaxBatch)

\* TFIDFEmbeddingProvider.encode(texts) called on the server's provider
\* (lines 101-115).
ProviderEncode(texts) ==
    /\ last = Idle
    /\ provider.type = "tfidf"
    /\ provider' = AfterEncode(provider, texts)
    /\ last' = Called("encode", "none", 0, "none", [texts |-> texts],
                      Encode(provider, texts))
    /\ UNCHANGED <<decisions, progress, system_patterns, custom_data,
                   sqlite_sequence, phases, item_embeddings, committed, clock,
                   reopens, transitions, frame>>

\* One provider instance is given batches by hooked writes, by searches and
\* by direct encode calls, in every order.
NextVocabulary ==
    \/ \E s \in Summaries, r \in Rationales : log_decision(s, r, NoFault)
    \/ \E d \in Descriptions, st \in Statuses : log_progress(d, st, NoFault)
    \/ \E q \in Words, m \in MinSimilarities :
            SemanticSearch(<<q>>, MaxTopK, {}, m, "none")
    \/ \E texts \in EncodeBatches : ProviderEncode(texts)
    \/ Return

SpecVocabulary == Init /\ [][NextVocabulary]_vars

\* ------------------------------------------------------------ custom_data text
\* A text is the sequence of its characters.  The characters stored values
\* are made of, and the longest value drawn from all of them.
Characters == {"{", "}", "\"", ":", " ", "1", "a"}
MaxValueLen == 3

\* The value column of a custom_data row: every text of at most MaxValueLen
\* characters, and the object {"a":1} written without and with the space
\* json.dumps puts after the colon.
StoredValues ==
    SeqsUpTo(Characters, MaxValueLen)
        \cup {<<"{", "\"", "a", "\"", ":", "1", "}">>,
               <<"{", "\"", "a", "\"", ":", " ", "1", "}">>}

\* The first place from i on that holds no space.
RECURSIVE SkipSpace(_, _)
SkipSpace(t, i) ==
    IF i <= Len(t) /\ t[i] = " " THEN SkipSpace(t, i + 1) ELSE i

\* The first place from i on that does not hold the character c.
RECURSIVE SkipRun(_, _, _)
SkipRun(t, i, c) ==
    IF i <= Len(t) /\ t[i] = c THEN SkipRun(t, i + 1, c) ELSE i

\* The first place from i on that holds a double quote (Len(t) + 1 when
\* there is none).
RECURSIVE FindQuote(_, _)
FindQuote(t, i) ==
    IF i > Len(t) \/ t[i] = "\"" THEN i ELSE FindQuote(t, i + 1)

Failed == [ok |-> FALSE, value |-> <<>>, next |-> 0]
Parsed(value, next) == [ok |-> TRUE, value |-> value, next |-> next]

\* The JSON value that starts at place i of t, with the place after it: a
\* number (a run of digits), a string, or an object with at most one
\* member.
RECURSIVE ParseValue(_, _)
ParseValue(t, i) ==
    IF i > Len(t) THEN Failed
    ELSE IF t[i] = "1"
    THEN Parsed([type |-> "int", digits |-> SubSeq(t, i, SkipRun(t, i, "1") - 1)],
                SkipRun(t, i, "1"))
    ELSE IF t[i] = "\""
    THEN LET j == FindQuote(t, i + 1)
         IN IF j > Len(t) THEN Failed
            ELSE Parsed([type |-> "str", chars |-> SubSeq(t, i + 1, j - 1)], j + 1)
    ELSE IF t[i] = "{"
    THEN LET k == SkipSpace(t, i + 1)
         IN IF k <= Len(t) /\ t[k] = "}"
            THEN Parsed([type |-> "dict", members |-> <<>>], k + 1)
            ELSE LET name == ParseValue(t, k)
                     colon == IF name.ok THEN SkipSpace(t, name.next) ELSE 0
                     member == IF name.ok /\ name.value.type = "str"
                                  /\ colon <= Len(t) /\ t[colon] = ":"
                               THEN ParseValue(t, SkipSpace(t, colon + 1))
                               ELSE Failed
                     close == IF member.ok THEN SkipSpace(t, member.next) ELSE 0
                 IN IF member.ok /\ close <= Len(t) /\ t[close] = "}"
                    THEN Parsed([type |-> "dict",
                                 members |-> <<[name |-> name.value.chars,
                                                value |-> member.value]>>],
                                close + 1)
                    ELSE Failed
    ELSE Failed

\* json.loads(text): the value the whole text denotes, spaces around it
\* allowed; not ok when the text is not JSON (json.JSONDecodeError).
json_loads(text) ==
    LET r == ParseValue(text, SkipSpace(text, 1))
    IN IF r.ok /\ SkipSpace(text, r.next) = Len(text) + 1 THEN r ELSE Failed

\* json.dumps(value) with its default separators ", " and ": ".
RECURSIVE json_dumps(_)
json_dumps(value) ==
    IF value.type = "int" THEN value.digits
    ELSE IF value.type = "str" THEN <<"\"">> \o value.chars \o <<"\"">>
    ELSE IF value.members = <<>> THEN <<"{", "}">>
    ELSE <<"{", "\"">> \o value.members[1].name \o <<"\"", ":", " ">>
            \o json_dumps(value.members[1].value) \o <<"}">>

\* The text of a custom_data row (lines 280-292): the value is parsed; a
\* string is taken as it is, any other value is serialised again, and a
\* value that does not parse is taken raw; no exception leaves the try.
CustomDataText(category, key, value) ==
    LET loaded == json_loads(value)
        value_str == IF ~loaded.ok THEN value
                     ELSE IF loaded.value.type = "str" THEN loaded.value.chars
                     ELSE json_dumps(loaded.value)
    IN <<category, "/", key, ":", " ">> \o value_str

\* _get_item_text_content("custom_data", id) on a row holding these
\* columns, whoever wrote it.
GetCustomDataText(category, key, value) ==
    /\ last = Idle
    /\ last' = Called("_get_item_text_content", "custom_data", 0, "none",
                      [category |-> category, key |-> key, value |-> value],
                      CustomDataText(category, key, value))
    /\ UNCHANGED <<decisions, progress, system_patterns, custom_data,
                   sqlite_sequence, phases, item_embeddings, committed,
                   provider, clock, reopens, transitions, frame>>

\* Text extraction over every stored value.
NextText ==
    \/ \E c \in Categories, k \in Keys, v \in StoredValues :
            GetCustomDataText(c, k, v)
    \/ Return

SpecText == Init /\ [][NextText]_vars

\* The parent ids a caller passes to update_progress.
ParentIds == {NoParent, <<1>>}

\* The calls of a client that logs progress entries and updates them with
\* every combination of fields, over a store where a failed refresh may
\* have left rows pending.
NextProgress ==
    \/ \E d \in {"", "auth"}, st \in Statuses, f \in Faults : log_progress(d, st, f)
    \/ \E id \in SomeIds, st \in NewStatuses \cup {"None"},
          d \in NewDescriptions \cup {"None"}, pa \in ParentIds,
          f \in {"none", "db"} : update_progress(id, st, d, pa, f)
    \/ \E ids \in ItemIdArgs, f \in Faults : UpdateEmbeddings("progress", ids, f)
    \/ Return

SpecProgress == Init /\ [][NextProgress]_vars

\* The calls of a client that writes, refreshes and rebuilds with every
\* fault, and searches.
NextRetrieval ==
    \/ \E s \in {"auth"}, r \in Rationales, f \in Faults : log_decision(s, r, f)
    \/ \E d \in {"", "auth"}, st \in Statuses, f \in Faults : log_progress(d, st, f)
    \/ \E n \in PatternNames, d \in PatternDescriptions, f \in Faults :
            log_system_pattern(n, d, f)
    \/ \E c \in Categories, k \in Keys, v \in Values, f \in Faults :
            log_custom_data(c, k, v, f)
    \/ \E t \in Kinds \cup {"unknown"}, ids \in ItemIdArgs, f \in Faults :
            UpdateEmbeddings(t, ids, f)
    \/ \E k \in 1..Len(KindOrder), f \in Faults : RebuildEmbeddings(k, f)
    \/ \E q \in Words, m \in MinSimilarities, f \in SearchFaults :
            SemanticSearch(<<q>>, MaxTopK, {}, m, f)
    \/ Return

SpecRetrieval == Init /\ [][NextRetrieval]_vars

\* ------------------------------------------------------------ OpenAIEmbeddingProvider
\* Configured retry counts, the signature's default 3 among them.
MaxRetries == 4

\* What the caller passes as api_key and what OPENAI_API_TOKEN holds: absent
\* (None, unset), or a secret.
ApiKeys == {"None", "sk-arg"}
EnvTokens == {"None", "sk-env"}

\* The record of one construction of the provider: the exception that left
\* it, its message, whether the client was created, how often construction
\* was tried, and the inputs.
Constructed(has_openai, key, raised, message, client) ==
    [op |-> "__init__", has_openai |-> has_openai, key |-> key,
     raised |-> raised, message |-> message, client |-> client, attempts |-> 1]

\* A constructor that hands whatever key it has to the client.
InitWithoutKeyCheck(has_openai, api_key, env_token, max_retries) ==
    LET key == IF api_key # "None" THEN api_key ELSE env_token
    IN  IF ~has_openai
        THEN Constructed(has_openai, key, "ImportError",
                         "openai not installed. Run: pip install openai", FALSE)
        ELSE Constructed(has_openai, key, "none", "", TRUE)

\* OpenAIEmbeddingProvider.__init__ (lines 154-173).
OpenAIEmbeddingProvider__init__(has_openai, api_key, env_token, max_retries) ==
    LET key == IF api_key # "None" THEN api_key ELSE env_token
    IN  IF ~has_openai
        THEN Constructed(has_openai, key, "ImportError",
                         "openai not installed. Run: pip install openai", FALSE)
        ELSE IF key = "None"
        THEN Constructed(has_openai, key, "ValueError",
                         "OpenAI API token must be provided via parameter or OPENAI_API_TOKEN environment variable",
                         FALSE)
        ELSE Constructed(has_openai, key, "none", "", TRUE)

\* The enhanced server is built with embedding_type "openai" and these
\* keyword arguments (lines 448-469); when the provider's construction
\* raises, so does the server's, and the server in use stays as it is.
Construct(has_openai, api_key, env_token, max_retries) ==
    LET r == OpenAIEmbeddingProvider__init__(has_openai, api_key, env_token,
                                             max_retries)
    IN /\ last = Idle /\ frame = NoFrame
       /\ frame' = r
       /\ provider' = IF r.raised = "none"
                      THEN [NewProvider("openai") EXCEPT !.max_retries = max_retries]
                      ELSE provider
       /\ item_embeddings' = IF r.raised = "none" THEN committed ELSE item_embeddings
       /\ UNCHANGED <<decisions, progress, system_patterns, custom_data,
                      sqlite_sequence, phases, committed, clock, reopens, transitions, last>>

\* An element of a batch handed to encode: a str with its text, or an
\* object that is not a str.
Str(text) == [str |-> TRUE, text |-> text]
NotStr == [str |-> FALSE, text |-> <<>>]

\* The arguments encode is called with: lists (empty, of strings, holding a
\* non-string), a tuple of strings, and None.
TextBatches ==
    {[list |-> TRUE, elems |-> e] :
        e \in {<<>>, <<Str(<<"auth">>)>>, <<Str(<<"auth">>), Str(<<"index">>)>>,
               <<Str(<<"auth">>), NotStr>>, <<NotStr>>}}
    \cup {[list |-> FALSE, elems |-> <<Str(<<"auth">>)>>],
          [list |-> FALSE, elems |-> <<>>]}

\* A batch the validation lets through whatever it holds.
AcceptAnyTexts(texts) == "none"

\* _validate_texts (lines 186-190): the exception it raises, "none" when it
\* returns.
_validate_texts(texts) ==
    IF ~texts.list \/ \E i \in 1..Len(texts.elems) : ~texts.elems[i].str
    THEN "ValueError"
    ELSE IF texts.elems = <<>> THEN "ValueError"
    ELSE "none"

\* 2 ** attempt, the seconds slept after a failed attempt.
RECURSIVE Pow2(_)
Pow2(n) == IF n = 0 THEN 1 ELSE 2 * Pow2(n - 1)

\* The activation of OpenAIEmbeddingProvider.encode: where it stands (pc),
\* the loop variable of _async_embed, the outcome of every call made to the
\* remote API so far, the delays slept, and what left the call.
EncodeFrame(pc, texts, attempt, outcomes, sleeps, raised, result) ==
    [op |-> "encode", pc |-> pc, texts |-> texts,
     max_retries |-> provider.max_retries, attempt |-> attempt,
     outcomes |-> outcomes, sleeps |-> sleeps, raised |-> raised,
     result |-> result]

\* What encode gives back: None, or an array of vectors.
NoneResult == [none |-> TRUE, embeddings |-> <<>>]
Array(vectors) == [none |-> FALSE, embeddings |-> vectors]

\* OpenAIEmbeddingProvider.encode (lines 204-208) up to the start of
\* _async_embed: the early return on an empty batch, then the validation.
OpenAIEncode(texts) ==
    /\ last = Idle /\ frame = NoFrame
    /\ provider.type = "openai"
    /\ frame' =
          IF texts.elems = <<>>
          THEN EncodeFrame("returned", texts, 0, <<>>, <<>>, "none", Array(<<>>))
          ELSE IF _validate_texts(texts) # "none"
          THEN EncodeFrame("raised", texts, 0, <<>>, <<>>,
                           _validate_texts(texts), NoneResult)
          ELSE EncodeFrame("attempt", texts, 1, <<>>, <<>>, "none", NoneResult)
    /\ UNCHANGED <<decisions, progress, system_patterns, custom_data,
                   sqlite_sequence, phases, item_embeddings, committed,
                   provider, clock, reopens, transitions, last>>

\* One turn of the loop of _async_embed (lines 192-202): the range is
\* exhausted and the function falls off its end, or one call is made to the
\* remote API, which answers (ok) or fails.
AsyncEmbedStep(ok) ==
    /\ frame.op = "encode" /\ frame.pc = "attempt"
    /\ frame' =
          IF frame.attempt > frame.max_retries
          THEN [frame EXCEPT !.pc = "returned", !.result = NoneResult]
          ELSE IF ok
          THEN [frame EXCEPT
                  !.pc = "returned",
                  !.outcomes = Append(@, TRUE),
                  !.result = Array([i \in 1..Len(frame.texts.elems) |->
                                       OpenAIVector(frame.texts.elems[i].text)])]
          ELSE IF frame.attempt = frame.max_retries
          THEN [frame EXCEPT !.pc = "raised", !.outcomes = Append(@, FALSE),
                             !.raised = "OpenAIEmbeddingError"]
          ELSE [frame EXCEPT !.outcomes = Append(@, FALSE),
                             !.sleeps = Append(@, Pow2(frame.attempt)),
                             !.attempt = @ + 1]
    /\ UNCHANGED <<decisions, progress, system_patterns, custom_data,
                   sqlite_sequence, phases, item_embeddings, committed,
                   provider, clock, reopens, transitions, last>>

\* The caller takes what the provider call gave back.
FrameReturn ==
    /\ frame.op \in {"__init__", "encode"}
    /\ frame.op = "encode" => frame.pc \in {"returned", "raised"}
    /\ frame' = NoFrame
    /\ UNCHANGED <<decisions, progress, system_patterns, custom_data,
                   sqlite_sequence, phases, item_embeddings, committed,
                   provider, clock, reopens, transitions, last>>

\* The calls of a client that builds servers on the remote provider, with
\* and without credentials, and has the provider encode batches.
NextEmbed ==
    \/ \E h \in BOOLEAN, a \in ApiKeys, e \in EnvTokens, m \in 0..MaxRetries :
            Construct(h, a, e, m)
    \/ \E texts \in TextBatches : OpenAIEncode(texts)
    \/ \E ok \in BOOLEAN : AsyncEmbedStep(ok)
    \/ FrameReturn

SpecEmbed == Init /\ [][NextEmbed]_vars

\* Every embedding type of _create_embedding_provider.
AllEmbeddingTypes == EmbeddingTypes \cup {"sentence_transformer"}

\* The server built with any of the three providers on an empty database.
InitBlob ==
    /\ decisions = {}
    /\ progress = {}
    /\ system_patterns = {}
    /\ custom_data = {}
    /\ sqlite_sequence = [k \in Kinds |-> 0]
    /\ phases = InitializePhases([n \in PhaseNames |-> "pending"])
    /\ item_embeddings = <<>>
    /\ committed = <<>>
    /\ provider \in {NewProvider(t) : t \in AllEmbeddingTypes}
    /\ clock = 0
    /\ reopens = 0
    /\ transitions = 0
    /\ last = Idle
    /\ frame = NoFrame

\* The calls of a client that searches a store holding, next to the rows
\* the hooked logs wrote, rows written straight into item_embeddings.
NextBlob ==
    \/ \E s \in Summaries, r \in Rationales : log_decision(s, r, NoFault)
    \/ \E d \in Descriptions, st \in Statuses : log_progress(d, st, NoFault)
    \/ \E id \in SomeIds, b \in Blobs : StoreBlob("decisions", id, b)
    \/ \E q \in Words, k \in 1..MaxTopK, m \in MinSimilarities :
            SemanticSearch(<<q>>, k, {}, m, "none")
    \/ Return

SpecBlob == InitBlob /\ [][NextBlob]_vars

\* ------------------------------------------------------------ batch, crash, second reader
\* update_embeddings taken one statement at a time (lines 298-353): the
\* texts are collected and encoded, then one INSERT OR REPLACE per item runs
\* inside the transaction sqlite3 opens before the first of them, and
\* conn.commit() ends it.  The frame keeps the batch, the number n of rows
\* written, and the table as committed (before) and as the connection saw
\* it (view0) when the batch began.
Batch(item_type, item_ids, items, embeddings, n, before, view0, provider0) ==
    [op |-> "update_embeddings", item_type |-> item_type, item_ids |-> item_ids,
     items |-> items, embeddings |-> embeddings, n |-> n, before |-> before,
     view0 |-> view0, provider0 |-> provider0]

\* Lines 298-329: ids, texts, encode.
BeginBatch(item_type, item_ids) ==
    LET items == CollectTexts(Db, item_type, IdsToUpdate(Db, item_type, item_ids))
        texts == [i \in 1..Len(items) |-> items[i].text]
    IN /\ last = Idle
       /\ frame = NoFrame
       /\ texts # <<>>
       /\ frame' = Batch(item_type, item_ids, items, Encode(provider, texts), 0,
                         committed, item_embeddings, provider)
       /\ provider' = AfterEncode(provider, texts)
       /\ UNCHANGED <<decisions, progress, system_patterns, custom_data,
                      sqlite_sequence, phases, item_embeddings, committed, clock,
                      reopens, transitions, last>>

\* Lines 335-351: the INSERT OR REPLACE of the next item of the batch.
StoreStep ==
    /\ last = Idle
    /\ frame.op = "update_embeddings"
    /\ frame.n < Len(frame.items)
    /\ item_embeddings' = StoreRows(frame.view0, frame.item_type, frame.items,
                                    frame.embeddings, provider, frame.n + 1)
    /\ frame' = [frame EXCEPT !.n = @ + 1]
    /\ UNCHANGED <<decisions, progress, system_patterns, custom_data,
                   sqlite_sequence, phases, committed, provider, clock, reopens, transitions,
                   last>>

\* Line 353: conn.commit(), and the call returns.
CommitBatch ==
    /\ last = Idle
    /\ frame.op = "update_embeddings"
    /\ frame.n = Len(frame.items)
    /\ SetDb(Commit(Db))
    /\ frame' = NoFrame
    /\ last' = Called("commit_batch", frame.item_type, 0, "none",
                      [batch |-> frame], <<>>)
    /\ UNCHANGED <<sqlite_sequence, phases, reopens, transitions>>

\* A database on which every INSERT is durable at once.
RecoveredWithoutJournal(db) ==
    [Commit(db) EXCEPT !.provider = NewProvider(db.provider.type)]

\* The database after the process died with a transaction open: sqlite rolls
\* the journal back when the file is opened again, and the new server
\* (_connect, lines 108-126 of the base server) gets a fresh provider.
Recovered(db) ==
    [Rollback(db) EXCEPT !.provider = NewProvider(db.provider.type)]

\* The process dies in the middle of a batch and the server is started
\* again on the same file.
Crash ==
    /\ last = Idle
    /\ frame.op = "update_embeddings"
    /\ SetDb(Recovered(Db))
    /\ phases' = InitializePhases(phases)
    /\ frame' = NoFrame
    /\ last' = Called("crash", frame.item_type, 0, "none", [batch |-> frame], <<>>)
    /\ UNCHANGED <<sqlite_sequence, reopens, transitions>>

\* semantic_search of a second server on the same database file, run while
\* the batch of the first is under way: its own connection reads what is
\* committed, in one SELECT (lines 370-379), with its own provider instance.
\* The outcome keeps the rows the SELECT returned.
ConcurrentSearch(query, top_k, min_similarity) ==
    LET reader == [Db EXCEPT !.view = committed,
                             !.provider = NewProvider(provider.type)]
        r == semantic_search(reader, query, top_k, {}, min_similarity, "none")
    IN /\ last = Idle
       /\ frame.op = "update_embeddings"
       /\ last' = Called("semantic_search", "none", 0, r.raised,
                         [query |-> query, top_k |-> top_k,
                          filter_item_types |-> {},
                          min_similarity |-> min_similarity, cause |-> r.cause,
                          rows |-> SelectByModel(reader.view, reader.provider.name)],
                         r.result)
       /\ UNCHANGED <<decisions, progress, system_patterns, custom_data,
                      sqlite_sequence, phases, item_embeddings, committed,
                      provider, clock, reopens, transitions, frame>>

\* The calls of a client whose refreshes run statement by statement, with a
\* crash at any statement and a second server searching meanwhile; between
\* batches records are logged and changed, and refreshes may fail leaving
\* rows pending.
NextCrash ==
    \/ frame = NoFrame /\ \E d \in {"auth"}, st \in Statuses : log_progress(d, st, NoFault)
    \/ frame = NoFrame /\ \E id \in SomeIds, d \in NewDescriptions :
            update_progress(id, "None", d, NoParent, "none")
    \/ frame = NoFrame /\ \E ids \in ItemIdArgs, k \in 0..(MaxBatch - 1) :
            UpdateEmbeddings("progress", ids, [type |-> "other", at |-> k])
    \/ \E ids \in ItemIdArgs : BeginBatch("progress", ids)
    \/ StoreStep
    \/ CommitBatch
    \/ Crash
    \/ \E q \in Words, m \in MinSimilarities : ConcurrentSearch(<<q>>, MaxTopK, m)
    \/ Return

SpecCrash == Init /\ [][NextCrash]_vars

\* ------------------------------------------------------------ properties
Writes == {"log_decision", "log_progress", "log_system_pattern",
           "log_custom_data", "update_progress"}

\* A search has just returned a list to its caller.
Searched == last.op = "semantic_search" /\ last.raised = "none"

\* The query vector of the search that has just returned.
QueryVector == Encode(provider, <<last.args.query>>)[1]

\* The score the search that has just returned gives a vector row.
ScoreOf(row) == Similarity(QueryVector, Frombuffer(row.embedding))

RowsOf(rows) == {rows[i] : i \in 1..Len(rows)}

HasSource(item_type, item_id) == \E r \in Table(Db, item_type) : r.id = item_id

\* The candidates of the search that has just returned: the vector rows of
\* the active provider, of a kind the filter admits, of the query's dimension.
Candidates ==
    {row \in RowsOf(item_embeddings) :
        /\ row.embedding_model = provider.name
        /\ last.args.filter_item_types # {} => row.item_type \in last.args.filter_item_types
        /\ Len(Frombuffer(row.embedding)) = Len(QueryVector)}

Returned(row) ==
    \E i \in 1..Len(last.result) :
        /\ last.result[i].item_type = row.item_type
        /\ last.result[i].item_id = row.item_id

\* C1: item_embeddings never holds two rows with the same (item_type,
\* item_id, embedding_model), neither in the connection's view nor in the
\* committed table: a refresh replaces the row of that provider.
UniqueKeys(rows) ==
    \A i, j \in 1..Len(rows) :
        (/\ rows[i].item_type = rows[j].item_type
         /\ rows[i].item_id = rows[j].item_id
         /\ rows[i].embedding_model = rows[j].embedding_model) => i = j

C1_OneRowPerKey == UniqueKeys(item_embeddings) /\ UniqueKeys(committed)

\* C1 witness: an update_embeddings call has returned and the table holds
\* the vector row of a progress item that update_progress had changed,
\* carrying the new description, next to another row.
C1_Witness ==
    /\ last.op = "update_embeddings" /\ last.raised = "none"
    /\ Len(item_embeddings) >= 2
    /\ \E r \in progress :
          /\ r.status = "done" /\ r.description = "index"
          /\ \E row \in RowsOf(item_embeddings) :
                /\ row.item_type = "progress" /\ row.item_id = r.id
                /\ row.text_content = <<"index">>

\* C2: once a create or update call on a source record has returned, the
\* vector table holds a row for that record under the active provider whose
\* text_content is the record's current (non-empty) extracted text.
C2_FreshAfterWrite ==
    (/\ last.op \in Writes
     /\ last.raised = "none"
     /\ _get_item_text_content(Db, last.item_type, last.item_id) # <<>>)
    => \E row \in RowsOf(item_embeddings) :
          /\ row.item_type = last.item_type
          /\ row.item_id = last.item_id
          /\ row.embedding_model = provider.name
          /\ row.text_content = _get_item_text_content(Db, last.item_type, last.item_id)

\* C3: a search never returns an item that has no row in its source table.
C3_NoDeletedItem ==
    Searched => \A i \in 1..Len(last.result) :
                    HasSource(last.result[i].item_type, last.result[i].item_id)

\* C3 witness: a search returned an item while a vector row of the active
\* provider, admitted by the filter and the threshold, had lost its source
\* record.
C3_Witness ==
    /\ Searched
    /\ last.result # <<>>
    /\ \E row \in Candidates :
          /\ ~HasSource(row.item_type, row.item_id)
          /\ Geq(ScoreOf(row), last.args.min_similarity)

\* C4: every result of a search comes from a vector row stored under the
\* active provider's name, with the score of that row, and no item is
\* returned twice.
C4_OnlyActiveProvider ==
    Searched =>
        /\ \A i \in 1..Len(last.result) :
              \E row \in RowsOf(item_embeddings) :
                  /\ row.embedding_model = provider.name
                  /\ row.item_type = last.result[i].item_type
                  /\ row.item_id = last.result[i].item_id
                  /\ ScoreOf(row) = last.result[i].similarity_score
        /\ \A i, j \in 1..Len(last.result) :
              (/\ last.result[i].item_type = last.result[j].item_type
               /\ last.result[i].item_id = last.result[j].item_id) => i = j

\* C4 witness: a search returned results while a row of another provider,
\* of the query's dimension and with a live source record, scored strictly
\* higher than every returned result.
C4_Witness ==
    /\ Searched
    /\ last.result # <<>>
    /\ last.args.filter_item_types = {}
    /\ \E row \in RowsOf(item_embeddings) :
          /\ row.embedding_model # provider.name
          /\ Len(Frombuffer(row.embedding)) = Len(QueryVector)
          /\ HasSource(row.item_type, row.item_id)
          /\ \A i \in 1..Len(last.result) :
                Gt(ScoreOf(row), last.result[i].similarity_score)

\* C5: with a non-empty filter_item_types every result is of a listed kind.
C5_FilterRespected ==
    (Searched /\ last.args.filter_item_types # {})
    => \A i \in 1..Len(last.result) :
          last.result[i].item_type \in last.args.filter_item_types

\* C5 witness: a search filtered on progress returned a progress item while
\* a decisions row of the active provider, with a live source record,
\* scored strictly higher than every returned result.
C5_Witness ==
    /\ Searched
    /\ last.args.filter_item_types = {"progress"}
    /\ last.result # <<>>
    /\ \E row \in RowsOf(item_embeddings) :
          /\ row.embedding_model = provider.name
          /\ row.item_type = "decisions"
          /\ HasSource(row.item_type, row.item_id)
          /\ Len(Frombuffer(row.embedding)) = Len(QueryVector)
          /\ \A i \in 1..Len(last.result) :
                Gt(ScoreOf(row), last.result[i].similarity_score)

\* C6: when update_embeddings fails, no partially written batch is left in
\* the connection's open transaction: what the connection sees is what is
\* committed.
C6_AllOrNothing ==
    (last.op = "update_embeddings" /\ last.raised # "none")
    => item_embeddings = committed

\* C7: a search that fails, whatever the cause, reaches the caller as
\* SemanticSearchError.
C7_TypedFailure ==
    (last.op = "semantic_search" /\ last.args.cause # "none")
    => last.raised = "SemanticSearchError"

\* The candidates that pass the threshold and the hydration.
Survivors ==
    {row \in Candidates :
        /\ Geq(ScoreOf(row), last.args.min_similarity)
        /\ HasSource(row.item_type, row.item_id)}

\* The position of a vector row in scan order.
Position(row) == CHOOSE i \in 1..Len(item_embeddings) : item_embeddings[i] = row

SameScore(x, y) == Geq(x, y) /\ Geq(y, x)

\* C8: the results are in non-increasing order of score, there are at most
\* top_k of them, and no surviving candidate left out scores strictly higher
\* than a returned one.
C8_RankedAndTruncated ==
    Searched =>
        /\ \A i, j \in 1..Len(last.result) :
              i < j => Geq(last.result[i].similarity_score,
                           last.result[j].similarity_score)
        /\ Len(last.result) <= last.args.top_k
        /\ \A row \in Survivors :
              ~Returned(row) =>
                  \A i \in 1..Len(last.result) :
                      ~Gt(ScoreOf(row), last.result[i].similarity_score)

\* C8 witness: a search with top_k = 1 had two survivors of different
\* scores, met the lower one first in the scan, and returned the higher one.
C8_Witness ==
    /\ Searched
    /\ last.args.top_k = 1
    /\ Len(last.result) = 1
    /\ \E low, high \in Survivors :
          /\ Position(low) < Position(high)
          /\ Gt(ScoreOf(high), ScoreOf(low))
          /\ Returned(high) /\ ~Returned(low)

\* C9: of two survivors with equal scores the one whose source record has
\* the more recent timestamp is ranked first, and is the one kept when
\* top_k cuts between them.
C9_TiesByRecency ==
    Searched =>
        /\ \A i, j \in 1..Len(last.result) :
              (/\ i < j
               /\ SameScore(last.result[i].similarity_score,
                            last.result[j].similarity_score))
              => last.result[i].timestamp >= last.result[j].timestamp
        /\ \A row \in Survivors :
              ~Returned(row) =>
                  \A i \in 1..Len(last.result) :
                      SameScore(ScoreOf(row), last.result[i].similarity_score)
                      => \A src \in Table(Db, row.item_type) :
                            src.id = row.item_id
                            => last.result[i].timestamp >= src.timestamp

\* C10: every result scores at least min_similarity, and a candidate with a
\* live source record that scores at least min_similarity is left out only
\* when the results are already top_k many.
C10_ThresholdExact ==
    Searched =>
        /\ \A i \in 1..Len(last.result) :
              Geq(last.result[i].similarity_score, last.args.min_similarity)
        /\ \A row \in Candidates :
              (/\ HasSource(row.item_type, row.item_id)
               /\ Geq(ScoreOf(row), last.args.min_similarity))
              => (Returned(row) \/ Len(last.result) = last.args.top_k)

\* C10 witness: a search returned a candidate scoring exactly
\* min_similarity and dropped one scoring strictly below it, with room left
\* under top_k.
C10_Witness ==
    /\ Searched
    /\ Len(last.result) < last.args.top_k
    /\ \E kept, dropped \in Candidates :
          /\ Returned(kept)
          /\ SameScore(ScoreOf(kept), last.args.min_similarity)
          /\ HasSource(dropped.item_type, dropped.item_id)
          /\ Gt(last.args.min_similarity, ScoreOf(dropped))
          /\ ~Returned(dropped)

\* A zero-magnitude vector took part in the score of a row: the query
\* vector's or the stored vector's norm is zero.
ZeroMagnitude(row) ==
    \/ Dot(QueryVector, QueryVector) = 0
    \/ Dot(Frombuffer(row.embedding), Frombuffer(row.embedding)) = 0

\* C11: no result carries an undefined score, and with min_similarity <= 0 a
\* candidate with a live source record whose score involves a zero-magnitude
\* vector is returned with score 0 (unless top_k results are already there).
C11_ZeroVectorScoresZero ==
    Searched =>
        /\ \A i \in 1..Len(last.result) : ~IsNaN(last.result[i].similarity_score)
        /\ Geq([num |-> 0, den |-> 1], last.args.min_similarity) =>
              \A row \in Candidates :
                  (HasSource(row.item_type, row.item_id) /\ ZeroMagnitude(row))
                  => \/ Len(last.result) = last.args.top_k
                     \/ \E i \in 1..Len(last.result) :
                            /\ last.result[i].item_type = row.item_type
                            /\ last.result[i].item_id = row.item_id
                            /\ last.result[i].similarity_score.num = 0

\* The rows the scan of the search that has just ended went over: those of
\* the active provider, of a kind the filter admits.
ScannedRows ==
    {row \in RowsOf(item_embeddings) :
        /\ row.embedding_model = provider.name
        /\ last.args.filter_item_types # {} => row.item_type \in last.args.filter_item_types}

\* The blob cannot be read as a vector of the query's dimension.
Rejected(row) ==
    \/ Malformed(row.embedding)
    \/ Len(Frombuffer(row.embedding)) # Len(QueryVector)

\* C12: a search over rows whose blob has a byte length that is no multiple
\* of 8, or decodes to another dimension than the query's, raises no error,
\* returns none of those rows, and goes on to score the other rows.
C12_BadBlobSkipped ==
    (last.op = "semantic_search" /\ last.args.cause \in {"none", "blob"}) =>
        /\ last.raised = "none"
        /\ \A row \in ScannedRows : Rejected(row) => ~Returned(row)
        /\ \A row \in ScannedRows :
              (/\ ~Rejected(row)
               /\ HasSource(row.item_type, row.item_id)
               /\ Geq(ScoreOf(row), last.args.min_similarity))
              => (Returned(row) \/ Len(last.result) = last.args.top_k)

\* The part of C12 about a decoded length that differs from the query's
\* dimension: the row is left out and the others are scored.
MismatchSkipped ==
    (Searched /\ \A row \in ScannedRows : ~Malformed(row.embedding)) =>
        /\ \A row \in ScannedRows : Rejected(row) => ~Returned(row)
        /\ \A row \in ScannedRows :
              (/\ ~Rejected(row)
               /\ HasSource(row.item_type, row.item_id)
               /\ Geq(ScoreOf(row), last.args.min_similarity))
              => (Returned(row) \/ Len(last.result) = last.args.top_k)

\* A search returned a result while a row of another decoded dimension was
\* among those it went over.
MismatchSeen ==
    /\ Searched
    /\ last.result # <<>>
    /\ \E row \in ScannedRows : ~Malformed(row.embedding) /\ Rejected(row)

\* _async_embed is running or has ended: encode got past its early return
\* and its validation.
InAsyncEmbed ==
    /\ frame.op = "encode"
    /\ frame.texts.elems # <<>>
    /\ frame.raised # "ValueError"

\* What the claim about _async_embed says of one activation: at most
\* max_retries calls; no call after one that succeeded, whose embeddings are
\* what is returned; a delay of 2^attempt after each failed attempt that is
\* followed by another and no other delay; OpenAIEmbeddingError when every
\* attempt failed; no normal return without embeddings.
RetryContract ==
    LET calls == Len(frame.outcomes)
        between == IF frame.pc = "attempt" THEN calls
                   ELSE IF calls = 0 THEN 0 ELSE calls - 1
    IN  /\ calls <= frame.max_retries
        /\ \A i \in 1..(calls - 1) : ~frame.outcomes[i]
        /\ (calls > 0 /\ frame.outcomes[calls]) =>
              /\ frame.pc = "returned"
              /\ frame.result = Array([i \in 1..Len(frame.texts.elems) |->
                                          OpenAIVector(frame.texts.elems[i].text)])
        /\ frame.sleeps = [i \in 1..between |-> Pow2(i)]
        /\ frame.pc = "raised" =>
              /\ frame.raised = "OpenAIEmbeddingError"
              /\ calls = frame.max_retries
        /\ (calls = frame.max_retries /\ \A i \in 1..calls : ~frame.outcomes[i])
              => frame.pc # "returned"
        /\ frame.pc = "returned" => ~frame.result.none

\* C13: for every configured max_retries, _async_embed keeps to its retry
\* contract: bounded calls, stop at the first success, exponential delays
\* between attempts only, OpenAIEmbeddingError when all fail, never a normal
\* return without embeddings.
C13_BoundedRetries == InAsyncEmbed => RetryContract

\* The same for the providers configured with max_retries >= 1.
RetriesFromOne == (InAsyncEmbed /\ frame.max_retries >= 1) => RetryContract

\* An activation with max_retries >= 2 failed on every attempt and raised.
RetriesExhausted ==
    /\ InAsyncEmbed
    /\ frame.max_retries >= 2
    /\ frame.pc = "raised"
    /\ Len(frame.sleeps) = frame.max_retries - 1

\* C14: encode calls the remote API only for a non-empty list of strings;
\* encode([]) returns an empty array with no call made; a batch holding a
\* non-string is rejected with ValueError with no call made.
C14_ValidatedBeforeCall ==
    frame.op = "encode" =>
        /\ Len(frame.outcomes) > 0 =>
              /\ frame.texts.list
              /\ frame.texts.elems # <<>>
              /\ \A i \in 1..Len(frame.texts.elems) : frame.texts.elems[i].str
        /\ (frame.texts.list /\ frame.texts.elems = <<>>) =>
              /\ frame.pc = "returned"
              /\ frame.result = Array(<<>>)
              /\ frame.outcomes = <<>>
        /\ (\E i \in 1..Len(frame.texts.elems) : ~frame.texts.elems[i].str) =>
              /\ frame.pc = "raised"
              /\ frame.raised = "ValueError"
              /\ frame.outcomes = <<>>

\* C14 witness: a provider that does make calls (max_retries >= 1) was
\* handed a list holding a string and a non-string, and the call ended in
\* ValueError with no call made.
C14_Witness ==
    /\ frame.op = "encode"
    /\ frame.max_retries >= 1
    /\ frame.texts.list
    /\ Len(frame.texts.elems) = 2
    /\ \E i \in 1..2 : ~frame.texts.elems[i].str
    /\ frame.raised = "ValueError"
    /\ frame.outcomes = <<>>

\* The provider was constructed with neither an api_key argument nor the
\* environment variable.
NoCredential == frame.op = "__init__" /\ frame.key = "None"

\* C15 as stated: construction without a credential fails with ValueError,
\* before any client is created, with no credential in the message, and is
\* tried once.
C15_MissingKeyValueError ==
    NoCredential =>
        /\ frame.raised = "ValueError"
        /\ ~frame.client
        /\ frame.message \notin (ApiKeys \cup EnvTokens)
        /\ frame.attempts = 1

\* C15 amended: construction without a credential fails before any client
\* is created, with ValueError when the openai package is importable and
\* with ImportError when it is not, with no credential in the message, and
\* is tried once.
C15_MissingKeyFailsFast ==
    NoCredential =>
        /\ frame.raised = (IF frame.has_openai THEN "ValueError" ELSE "ImportError")
        /\ ~frame.client
        /\ frame.message \notin (ApiKeys \cup EnvTokens)
        /\ frame.attempts = 1

\* C15 witness: with the package importable, a construction without a
\* credential ended in ValueError with no client created.
C15_Witness ==
    /\ NoCredential
    /\ frame.has_openai
    /\ frame.raised = "ValueError"
    /\ ~frame.client

\* The rows of a vector table stored for one item under one provider name.
RowsFor(rows, item_type, item_id, name) ==
    SelectSeq(rows, LAMBDA r : /\ r.item_type = item_type
                               /\ r.item_id = item_id
                               /\ r.embedding_model = name)

\* update_embeddings(kind, [id]) has returned, and before the call the item
\* already had a row under the active provider whose text_content is the
\* item's current text: the call was a repeated refresh of unchanged text.
RefreshedAgain ==
    /\ last.op = "update_embeddings"
    /\ last.raised = "none"
    /\ ~last.args.item_ids.none
    /\ Len(last.args.item_ids.list) = 1
    /\ LET id == last.args.item_ids.list[1]
           was == RowsFor(last.args.before, last.item_type, id, provider.name)
       IN /\ Len(was) = 1
          /\ was[1].text_content = _get_item_text_content(Db, last.item_type, id)

\* C16: a repeated update_embeddings(kind, [id]) on unchanged source text
\* leaves exactly one row for (kind, id, provider.name), with the same
\* text_content and the same vector as before the repeated call.
C16_Idempotent ==
    RefreshedAgain =>
        LET id == last.args.item_ids.list[1]
            was == RowsFor(last.args.before, last.item_type, id, provider.name)
            now == RowsFor(item_embeddings, last.item_type, id, provider.name)
        IN /\ Len(now) = 1
           /\ now[1].text_content = was[1].text_content
           /\ now[1].embedding = was[1].embedding
           /\ Len(RowsFor(committed, last.item_type, id, provider.name)) = 1

\* C16 witness: a repeated refresh of one id whose earlier row was stored
\* in a batch with another record of a different text.
C16_Witness ==
    /\ RefreshedAgain
    /\ \E i \in 1..Len(item_embeddings) :
          /\ item_embeddings[i].item_type = last.item_type
          /\ item_embeddings[i].item_id # last.args.item_ids.list[1]
          /\ item_embeddings[i].text_content
                # _get_item_text_content(Db, last.item_type, last.args.item_ids.list[1])

\* The kinds whose refresh a rebuild started, in the order of its output.
Refreshed == SelectSeq(last.result, LAMBDA line : line \in Kinds)

\* C17: when the refresh of one kind fails inside rebuild_all_embeddings,
\* the rebuild is not aborted: every later kind is still refreshed and the
\* rebuild runs to its end and returns its report instead of raising.
C17_RebuildContinues ==
    (last.op = "rebuild_all_embeddings" /\ last.args.failed # 0) =>
        /\ \A k \in (last.args.failed + 1)..Len(KindOrder) :
               \E i \in 1..Len(Refreshed) : Refreshed[i] = KindOrder[k]
        /\ last.raised = "none"
        /\ last.result[Len(last.result)] = AllRebuilt

\* A record of one of the four kinds has a row under the active provider
\* whose text_content is the record's current text.
Fresh(rows, item_type, item_id) ==
    LET stored == RowsFor(rows, item_type, item_id, provider.name)
    IN /\ Len(stored) = 1
       /\ stored[1].text_content = _get_item_text_content(Db, item_type, item_id)

\* The records with non-empty extracted text, as (kind, id) pairs.
WithText ==
    {<<t, r.id>> : t \in Kinds, r \in decisions \cup progress
                                        \cup system_patterns \cup custom_data}
        \cap {x \in Kinds \X SomeIds : _get_item_text_content(Db, x[1], x[2]) # <<>>}

\* C18: rebuild_all_embeddings refreshes decisions, progress,
\* system_patterns, custom_data in that order, each once, and when it has
\* completed without error every source record with non-empty extracted
\* text has a row under the active provider with the record's current text.
C18_RebuildOrderAndFresh ==
    (last.op = "rebuild_all_embeddings" /\ last.raised = "none") =>
        /\ Refreshed = <<"decisions", "progress", "system_patterns", "custom_data">>
        /\ \A x \in WithText : Fresh(item_embeddings, x[1], x[2])
                                /\ Fresh(committed, x[1], x[2])

\* C18 witness: a completed rebuild over records of two kinds, one of which
\* had no fresh row before the rebuild.
C18_Witness ==
    /\ last.op = "rebuild_all_embeddings"
    /\ last.raised = "none"
    /\ \E x, y \in WithText : x[1] # y[1] /\ ~Fresh(last.args.before, x[1], x[2])

\* The rows of a vector table that belong to none of the items (kind, id)
\* with id in the list, in rowid order.
OtherRows(rows, item_type, list) ==
    SelectSeq(rows, LAMBDA r : ~(/\ r.item_type = item_type
                                /\ \E i \in 1..Len(list) : list[i] = r.item_id))

\* C19: update_embeddings(kind, ids) called with a list of ids, the empty
\* list included, leaves every row of item_embeddings that is not of
\* (kind, id) with id in the list as it was, and for an unknown kind leaves
\* the whole table as it was.
C19_OnlyListedIds ==
    last.op = "update_embeddings" =>
        /\ ~last.args.item_ids.none =>
              OtherRows(item_embeddings, last.item_type, last.args.item_ids.list)
                = OtherRows(last.args.before, last.item_type, last.args.item_ids.list)
        /\ last.item_type \notin Kinds => item_embeddings = last.args.before

\* The same for the calls that returned with a non-empty list or an unknown
\* kind.
ListedIdsOnly ==
    (last.op = "update_embeddings" /\ last.raised = "none") =>
        /\ (~last.args.item_ids.none /\ last.args.item_ids.list # <<>>) =>
              OtherRows(item_embeddings, last.item_type, last.args.item_ids.list)
                = OtherRows(last.args.before, last.item_type, last.args.item_ids.list)
        /\ last.item_type \notin Kinds => item_embeddings = last.args.before

\* A call with the empty list that returned and changed the table.
EmptyListRefreshed ==
    /\ last.op = "update_embeddings"
    /\ last.raised = "none"
    /\ ~last.args.item_ids.none
    /\ last.args.item_ids.list = <<>>
    /\ item_embeddings # last.args.before

\* The batch a crash or a concurrent search met.
MetBatch == IF last.op = "crash" THEN last.args.batch ELSE frame

\* The table the batch commits when it runs to its end.
BatchEnd ==
    StoreRows(MetBatch.view0, MetBatch.item_type, MetBatch.items,
              MetBatch.embeddings, MetBatch.provider0, Len(MetBatch.items))

\* The row of item number i of the batch in a table, under the provider's
\* name (the empty sequence when it has none).
BatchRow(rows, i) ==
    RowsFor(rows, MetBatch.item_type, MetBatch.items[i].id, MetBatch.provider0.name)

\* A search ran on a second connection while a batch was under way.
SearchedMeanwhile ==
    /\ last.op = "semantic_search"
    /\ frame # NoFrame
    /\ frame.op = "update_embeddings"

\* C20: a semantic_search concurrent with an update_embeddings reads, for
\* each item of the batch, the whole row as it was before the refresh or
\* the whole row the refresh writes, never a blob cut short; and after a
\* crash in the middle of a batch either every item of the batch has its
\* old row or every item has its new one.
C20_OldOrNew ==
    /\ SearchedMeanwhile =>
          /\ \A j \in 1..Len(last.args.rows) : ~Malformed(last.args.rows[j].embedding)
          /\ \A i \in 1..Len(frame.items) :
                \/ BatchRow(last.args.rows, i) = BatchRow(frame.before, i)
                \/ BatchRow(last.args.rows, i) = BatchRow(BatchEnd, i)
    /\ last.op = "crash" =>
          \/ \A i \in 1..Len(MetBatch.items) :
                BatchRow(item_embeddings, i) = BatchRow(MetBatch.before, i)
          \/ \A i \in 1..Len(MetBatch.items) :
                BatchRow(item_embeddings, i) = BatchRow(BatchEnd, i)

\* C20 witness: a crash after the first of two rows of a batch was written,
\* both items having a new row that differs from the old one.
C20_Witness ==
    /\ last.op = "crash"
    /\ Len(MetBatch.items) = 2
    /\ MetBatch.n = 1
    /\ \A i \in 1..2 : BatchRow(MetBatch.before, i) # BatchRow(BatchEnd, i)

\* A concurrent search read the old row of an item whose new row the
\* writer had already written.
ReadOldMeanwhile ==
    /\ SearchedMeanwhile
    /\ frame.n >= 1
    /\ BatchRow(last.args.rows, 1) # <<>>
    /\ BatchRow(last.args.rows, 1) # BatchRow(item_embeddings, 1)

\* The statement-by-statement batch commits the table update_embeddings
\* yields in one step.
StepwiseAgrees ==
    last.op = "commit_batch" =>
        item_embeddings =
            update_embeddings([Db EXCEPT !.view = last.args.batch.view0,
                                        !.committed = last.args.batch.before,
                                        !.provider = last.args.batch.provider0],
                              last.args.batch.item_type, last.args.batch.item_ids,
                              NoFault).view

\* The calls that run update_embeddings.
Refreshes == {"log_decision", "log_progress", "log_system_pattern",
              "log_custom_data", "update_embeddings", "rebuild_all_embeddings"}

\* C21: in every run of update_embeddings, called directly, from a log_*
\* hook or from a rebuild, provider.encode is called while the connection
\* holds no open write transaction.
C21_EncodeOutsideTransaction ==
    last.op \in Refreshes => ~last.args.held

\* The same for the hooked log_* calls alone.
HooksEncodeOutside ==
    last.op \in Refreshes \ {"update_embeddings", "rebuild_all_embeddings"}
        => ~last.args.held

\* A rebuild ran an encode inside a transaction an earlier call left open.
RebuildEncodedHeld ==
    last.op = "rebuild_all_embeddings" /\ last.args.held

\* The four source tables.
SourceTables == <<decisions, progress, system_patterns, custom_data>>

\* C22: a step of update_embeddings, rebuild_all_embeddings or
\* semantic_search leaves the decisions, progress, system_patterns and
\* custom_data tables as they were, and a step of semantic_search leaves
\* item_embeddings as it was as well, in the connection's view and
\* committed.
C22_SourceUntouched ==
    [][(last'.op \in {"update_embeddings", "rebuild_all_embeddings",
                      "semantic_search"}) =>
          /\ SourceTables' = SourceTables
          /\ last'.op = "semantic_search" =>
                /\ item_embeddings' = item_embeddings
                /\ committed' = committed]_vars

\* C22 witness: a rebuild has written vector rows over a store that holds
\* progress records and decisions.
C22_Witness ==
    /\ last.op = "rebuild_all_embeddings"
    /\ item_embeddings # last.args.before
    /\ progress # {}
    /\ decisions # {}

\* The phases with status active.
ActivePhases == {n \in PhaseNames : phases[n] = "active"}

\* C23: in every reachable state of the phases table, after initialisation,
\* re-opening and any number of transition_to_next_phase calls, at most one
\* phase has status active.
C23_AtMostOneActive == Cardinality(ActivePhases) <= 1

\* C23 witness: a transition made after the last phase was completed has
\* returned and one phase is active.
C23_Witness ==
    /\ last.op = "transition_to_next_phase"
    /\ last.args.before["project complete"] = "complete"
    /\ Cardinality(ActivePhases) = 1

\* The database as update_progress can touch it.
Stored == <<decisions, progress, system_patterns, custom_data, item_embeddings,
            committed>>

\* C24: update_progress with no field supplied raises ValueError and
\* touches nothing; with an id that does not exist, or on a database
\* failure, it raises DatabaseUpdateError and the progress table is as it
\* was; when it returns, the progress table differs from the one before in
\* the supplied fields of the row with that id and in nothing else.
C24_UpdateProgressGuarded ==
    [][last'.op = "update_progress" =>
        LET a == last'.args
            none == a.status = "None" /\ a.description = "None"
                        /\ a.parent_id = NoParent
            found == \E r \in progress : r.id = last'.item_id
        IN /\ none => (last'.raised = "ValueError" /\ Stored' = Stored)
           /\ (~none /\ (~found \/ a.fault = "db")) =>
                 (last'.raised = "DatabaseUpdateError" /\ progress' = progress)
           /\ last'.raised = "none" =>
                 /\ ~none /\ found
                 /\ {r.id : r \in progress'} = {r.id : r \in progress}
                 /\ \A r \in progress : \A n \in progress' :
                       r.id = n.id =>
                         IF r.id # last'.item_id THEN n = r ELSE
                         /\ n.id = r.id
                         /\ n.timestamp = r.timestamp
                         /\ n.phase_name = r.phase_name
                         /\ n.status = (IF a.status = "None" THEN r.status
                                         ELSE a.status)
                         /\ n.description = (IF a.description = "None"
                                              THEN r.description ELSE a.description)
                         /\ n.parent_id = (IF a.parent_id = NoParent
                                            THEN r.parent_id ELSE a.parent_id)
    ]_vars

\* C24 witness: an update that supplied the description alone has returned;
\* the row carries the new description and the status it was logged with,
\* next to a second row.
C24_Witness ==
    /\ last.op = "update_progress"
    /\ last.raised = "none"
    /\ last.args.status = "None"
    /\ last.args.description # "None"
    /\ \E r \in progress : /\ r.id = last.item_id
                             /\ r.description = last.args.description
                             /\ r.status \in Statuses
    /\ Cardinality(progress) = 2

\* A memory-bank path the server must refuse: absolute, or leading out of
\* the workspace directory.
Refused(path) == path.abs \/ ~Inside(Abspath(Workspace, path))

\* C25: sync_from_memory_bank and sync_to_memory_bank called with a path
\* that is absolute or resolves outside the workspace raise
\* MemoryBankSyncError, read no file, write no file and create no record;
\* whatever a sync reads or writes lies inside the workspace.
C25_SyncStaysInWorkspace ==
    last.op \in {"sync_from_memory_bank", "sync_to_memory_bank"} =>
        /\ Refused(last.args.path) =>
              /\ last.raised = "MemoryBankSyncError"
              /\ last.result = OnDisk({}, {})
              /\ last.args.created = 0
        /\ \A file \in last.result.read \cup last.result.written : Inside(file)

\* An import from outside the workspace created a record.
ImportedFromOutside ==
    /\ last.op = "sync_from_memory_bank"
    /\ last.raised = "none"
    /\ last.args.created = 1
    /\ \E file \in last.result.read : ~Inside(file)

\* The text of a custom_data row was extracted.
Extracted == last.op = "_get_item_text_content"

\* What follows "{category}/{key}: " in an extracted text.
ValuePart == SubSeq(last.result, 6, Len(last.result))

\* C26: text extraction for a custom_data record never fails and yields
\* "{category}/{key}: {value}", where a stored JSON string is unwrapped, a
\* stored JSON object is rendered exactly as it is stored, and a stored
\* value that is not valid JSON is used verbatim.
C26_CustomDataText ==
    Extracted =>
        LET loaded == json_loads(last.args.value)
        IN /\ last.raised = "none"
           /\ SubSeq(last.result, 1, 5)
                 = <<last.args.category, "/", last.args.key, ":", " ">>
           /\ (loaded.ok /\ loaded.value.type = "str") =>
                 ValuePart = loaded.value.chars
           /\ (loaded.ok /\ loaded.value.type = "dict") =>
                 ValuePart = last.args.value
           /\ ~loaded.ok => ValuePart = last.args.value

\* The same without the stored objects: strings are unwrapped, values that
\* are not JSON are used verbatim, and no extraction fails.
StringsAndRawText ==
    Extracted =>
        LET loaded == json_loads(last.args.value)
        IN /\ last.raised = "none"
           /\ (loaded.ok /\ loaded.value.type = "str") =>
                 ValuePart = loaded.value.chars
           /\ ~loaded.ok => ValuePart = last.args.value

\* A stored object written as json.dumps writes it comes out as stored.
DumpedObjectKept ==
    /\ Extracted
    /\ last.args.value = <<"{", "\"", "a", "\"", ":", " ", "1", "}">>
    /\ ValuePart = last.args.value

\* The batch the step hands to the provider's encode, by the operation that
\* issues it: a direct call, the query of a search, or the text of the
\* record a hooked write refreshes.
BatchOf(call, db) ==
    IF call.op = "encode" THEN call.args.texts
    ELSE IF call.op = "semantic_search" THEN <<call.args.query>>
    ELSE IF call.op \in {"log_decision", "log_progress"}
            /\ _get_item_text_content(db, call.item_type, call.item_id) # <<>>
    THEN <<_get_item_text_content(db, call.item_type, call.item_id)>>
    ELSE <<>>

EmptyBatchNoFit ==
    /\ last.op = "encode"
    /\ last.args.texts = <<>>
    /\ ~provider.fitted

\* The first k phases are complete, phase k + 1 is active and the phases
\* after it are pending.
Walked(ph, k) ==
    \A i \in 1..Len(PHASE_SEQUENCE) :
        ph[PHASE_SEQUENCE[i]] = IF i <= k THEN "complete"
                                ELSE IF i = k + 1 THEN "active"
                                ELSE "pending"

\* C28: transition_to_next_phase marks the phase get_current_phase reports
\* as complete and makes the phase after it in PHASE_SEQUENCE the active
\* one, changing no other phase; k < 12 transitions from a fresh database
\* leave exactly the first k phases complete and phase k + 1 active, and
\* the transition out of the last phase leaves no phase active.
C28_TransitionStep ==
    [][last'.op = "transition_to_next_phase" =>
          LET reported == IF \E n \in PhaseNames : phases[n] = "active"
                          THEN CHOOSE n \in PhaseNames : phases[n] = "active"
                          ELSE PHASE_SEQUENCE[1]
              idx == IndexOf(reported)
              following == IF idx < Len(PHASE_SEQUENCE)
                           THEN {PHASE_SEQUENCE[idx + 1]} ELSE {}
          IN /\ last'.args.current = reported
             /\ phases'[reported] = "complete"
             /\ \A n \in following : phases'[n] = "active"
             /\ \A n \in PhaseNames \ ({reported} \cup following) :
                   phases'[n] = phases[n]
             /\ {n \in PhaseNames : phases'[n] = "active"} = following
             /\ transitions' < Len(PHASE_SEQUENCE) => Walked(phases', transitions')
             /\ phases[PHASE_SEQUENCE[Len(PHASE_SEQUENCE)]] = "active" =>
                   \A n \in PhaseNames : phases'[n] = "complete"]_vars

\* C28 witness: the twelfth transition from a fresh database has returned;
\* it left the last phase, and no phase is active.
C28_Witness ==
    /\ last.op = "transition_to_next_phase"
    /\ transitions = Len(PHASE_SEQUENCE)
    /\ last.args.current = "project complete"
    /\ Walked(last.args.before, Len(PHASE_SEQUENCE) - 1)
    /\ ActivePhases = {}

\* Five transitions from a fresh database, the server built again on the
\* way: five phases complete and the sixth active.
WalkedFive ==
    /\ last.op = "transition_to_next_phase"
    /\ transitions = 5
    /\ reopens = 1
    /\ Walked(phases, 5)

\* C29: the phase lifecycle only moves forward: a phase with status
\* complete never becomes active or pending again, under any sequence of
\* transition_to_next_phase calls and re-openings, calls made after
\* "project complete" was completed included.
C29_CompleteStaysComplete ==
    [][\A n \in PhaseNames : phases[n] = "complete" => phases'[n] = "complete"]_vars

\* Until the twelfth transition has been made, completed phases stay
\* complete.
CompleteStaysUntilDone ==
    [][transitions < Len(PHASE_SEQUENCE) =>
          \A n \in PhaseNames : phases[n] = "complete" => phases'[n] = "complete"]_vars

\* A transition made with all twelve phases complete has activated the
\* second phase again.
SpecificationReactivated ==
    /\ last.op = "transition_to_next_phase"
    /\ \A n \in PhaseNames : last.args.before[n] = "complete"
    /\ phases["specification"] = "active"

\* The server was built again with all twelve phases complete and the
\* first phase is active again.
ResearchReactivated ==
    /\ reopens = 1
    /\ last = Idle
    /\ transitions = Len(PHASE_SEQUENCE)
    /\ phases["research"] = "active"
    /\ phases["project complete"] = "complete"

\* C30: a vector row is never attributed to a record other than the one it
\* was computed from: ids not being reused after a delete, for every result
\* of a search the text_content of the matched vector row is the text
\* extracted from the source record returned as the result's content,
\* under any sequence of log, delete and refresh operations.
C30_VectorOfReturnedRecord ==
    Searched =>
        \A i \in 1..Len(last.result) :
            LET res == last.result[i]
            IN /\ res.content \in _get_full_item_data(Db, res.item_type, res.item_id)
               /\ \A row \in RowsOf(item_embeddings) :
                     (/\ row.item_type = res.item_type
                      /\ row.item_id = res.item_id
                      /\ row.embedding_model = provider.name) =>
                        row.text_content
                            = _get_item_text_content(Db, res.item_type, res.item_id)

\* C30 witness: a search returned the second record of a kind whose first
\* record was deleted and has left its vector row behind.
C30_Witness ==
    /\ Searched
    /\ \E i \in 1..Len(last.result) :
          /\ last.result[i].item_id = 2
          /\ ~HasSource(last.result[i].item_type, 1)
          /\ \E row \in RowsOf(item_embeddings) :
                /\ row.item_type = last.result[i].item_type
                /\ row.item_id = 1
                /\ row.embedding_model = provider.name

\* No id is handed out twice: a row that appears in a source table has an
\* id above every id the table held before.
IdsNeverReused ==
    [][\A k \in Kinds :
          \A r \in Table(Db', k) :
              (\A x \in Table(Db, k) : x.id # r.id) => r.id > sqlite_sequence[k]]_vars

====
